---- MODULE Spec2Model ----
(***************************************************************************)
(* Wind loading on signage structures: the wall-mounted, post-mounted and  *)
(* projecting engines and the panel construction checker, as state         *)
(* machines over calculator instances and the results they return.         *)
(*                                                                         *)
(* Numbers.  A Python float is held as a fixed-point integer, the value    *)
(* times SCALE (1.5 m is 15000, 0.68 is 6800).  Section properties in mm   *)
(* units (I, W_el, areas, stresses' numerators) are whole numbers where    *)
(* the comment of the definition says so.  Mul and Div keep every          *)
(* intermediate value below 2^31.  np.log is Ln, a fixed-point logarithm.  *)
(***************************************************************************)
EXTENDS Integers, Sequences, FiniteSets, TLC

SCALE == 100 * 100

\* floor(a * b / SCALE), the product of two fixed-point numbers
Mul(a, b) ==
    LET ah == a \div SCALE
        al == a % SCALE
        bh == b \div SCALE
        bl == b % SCALE
    IN  ah * b + al * bh + (al * bl) \div SCALE

\* floor(a * SCALE / b) for b > 0, the quotient of two fixed-point numbers
\* (or of two whole numbers), by long division two digits at a time
Div(a, b) ==
    LET q0 == a \div b
        r0 == a % b
        q1 == (r0 * 100) \div b
        r1 == (r0 * 100) % b
        q2 == (r1 * 100) \div b
    IN  q0 * SCALE + q1 * 100 + q2

\* a / b as IEEE division rounds it around 1.0: the quotient of a > b is
\* above 1.0 and the quotient of a <= b is not (division is correctly rounded).
\* Quotients of 200000 and more, which only the 999999 stand-ins of the
\* guarded divisions produce, are all held as 200000.
Ratio(a, b) ==
    IF a \div b >= 200000 THEN 200000 * SCALE
    ELSE IF a > b /\ Div(a, b) <= SCALE THEN SCALE + 1 ELSE Div(a, b)

\* floor(a * b / SCALE^2): a fixed-point product brought down to whole units
MulWhole(a, b) ==
    LET ah == a \div SCALE
        al == a % SCALE
        bh == b \div SCALE
        bl == b % SCALE
    IN  ah * bh + (ah * bl + al * bh + (al * bl) \div SCALE) \div SCALE

Max(a, b) == IF a >= b THEN a ELSE b
Min(a, b) == IF a <= b THEN a ELSE b

\* fixed-point value of a whole number
Fix(n) == n * SCALE

RECURSIVE LnReduce(_, _)
\* x = m * 2^k with m in [0.75, 1.5]
LnReduce(x, k) ==
    IF x > 15000 THEN LnReduce(x \div 2, k + 1)
    ELSE IF x < 7500 THEN LnReduce(x * 2, k - 1)
    ELSE <<x, k>>

\* np.log(x) for x > 0: ln m = 2 atanh((m - 1) / (m + 1)), plus k ln 2
\* (ln 2 = 0.6931)
LnSeries(y, y2, k) ==
    2 * Mul(y, SCALE + y2 \div 3 + Mul(y2, y2) \div 5 + Mul(Mul(y2, y2), y2) \div 7)
        + k * 6931

LnAtanh(y, k) == LnSeries(y, Mul(y, y), k)

LnMantissa(r) == LnAtanh(Div(r[1] - SCALE, r[1] + SCALE), r[2])

Ln(x) == LnMantissa(LnReduce(x, 0))

\* e^y for -1 <= y <= 1 (Taylor series)
ExpSeries(y, y2) ==
    SCALE + y + y2 \div 2 + Mul(y2, y) \div 6 + Mul(y2, y2) \div 24
        + Mul(Mul(y2, y2), y) \div 120

Exp(y) == ExpSeries(y, Mul(y, y))

\* x ** p for x > 0, as exp(p ln x)
Pow(x, p) == Exp(Mul(p, Ln(x)))

(***************************************************************************)
(* WindLoadCalculator: the stage functions of the wall-mounted pipeline.   *)
(* Lengths are in m, speeds in m/s, pressures in Pa, all fixed-point;      *)
(* forces in N are whole newtons.                                          *)
(***************************************************************************)

\* str.upper() on the characters postcodes are drawn from
Upper(c) ==
    CASE c = "b" -> "B"
      [] c = "z" -> "Z"
      [] c = "e" -> "E"
      [] c = "x" -> "X"
      [] OTHER -> c

IsAlpha(c) == Upper(c) \in {"A", "B", "C", "D", "E", "F", "G", "H", "I", "J",
    "K", "L", "M", "N", "O", "P", "Q", "R", "S", "T", "U", "V", "W", "X",
    "Y", "Z"}

RECURSIVE LStrip(_)
LStrip(s) == IF s # <<>> /\ Head(s) = " " THEN LStrip(Tail(s)) ELSE s

RECURSIVE RStrip(_)
RStrip(s) ==
    IF s # <<>> /\ s[Len(s)] = " " THEN RStrip(SubSeq(s, 1, Len(s) - 1)) ELSE s

\* postcode.upper().strip()
UpperStrip(s) == LStrip(RStrip([i \in 1..Len(s) |-> Upper(s[i])]))

\* ''.join([c for c in postcode_upper[:2] if c.isalpha()])
PostcodeArea(postcode) ==
    LET u == UpperStrip(postcode)
        first2 == SubSeq(u, 1, Min(2, Len(u)))
    IN  SelectSeq(first2, IsAlpha)

\* wind_speed_map: postcode area -> v_map
WindSpeedMap ==
    { <<<<"A", "B">>, 240000>>, <<<<"D", "D">>, 240000>>, <<<<"D", "G">>, 235000>>,
      <<<<"E", "H">>, 240000>>, <<<<"F", "K">>, 235000>>, <<<<"G">>, 235000>>,
      <<<<"H", "S">>, 260000>>, <<<<"I", "V">>, 250000>>, <<<<"K", "A">>, 235000>>,
      <<<<"K", "W">>, 260000>>, <<<<"K", "Y">>, 240000>>, <<<<"M", "L">>, 235000>>,
      <<<<"P", "A">>, 240000>>, <<<<"P", "H">>, 245000>>, <<<<"T", "D">>, 235000>>,
      <<<<"Z", "E">>, 270000>>,
      <<<<"C", "A">>, 230000>>, <<<<"D", "H">>, 225000>>, <<<<"D", "L">>, 225000>>,
      <<<<"N", "E">>, 230000>>, <<<<"S", "R">>, 225000>>, <<<<"T", "S">>, 225000>>,
      <<<<"C", "F">>, 230000>>, <<<<"L", "L">>, 235000>>, <<<<"S", "A">>, 235000>>,
      <<<<"S", "Y">>, 225000>>, <<<<"L", "D">>, 225000>>, <<<<"N", "P">>, 225000>>,
      <<<<"E", "X">>, 225000>>, <<<<"P", "L">>, 235000>>, <<<<"T", "Q">>, 225000>>,
      <<<<"T", "R">>, 240000>>,
      <<<<"B", "N">>, 225000>>, <<<<"C", "T">>, 230000>>, <<<<"T", "N">>, 220000>>,
      <<<<"M", "E">>, 225000>>, <<<<"R", "H">>, 220000>>,
      <<<<"E">>, 220000>>, <<<<"E", "C">>, 220000>>, <<<<"N">>, 220000>>,
      <<<<"N", "W">>, 220000>>, <<<<"S", "E">>, 220000>>, <<<<"S", "W">>, 220000>>,
      <<<<"W">>, 220000>>, <<<<"W", "C">>, 220000>>,
      <<<<"B">>, 215000>>, <<<<"C", "V">>, 215000>>, <<<<"D", "E">>, 215000>>,
      <<<<"L", "E">>, 215000>>, <<<<"N", "G">>, 215000>>, <<<<"N", "N">>, 215000>>,
      <<<<"W", "S">>, 215000>>, <<<<"W", "V">>, 215000>> }

InWindSpeedMap(area) == \E e \in WindSpeedMap : e[1] = area

\* lookup_wind_speed: the value returned
LookupWindSpeed(postcode) ==
    IF postcode = <<>> THEN 220000
    ELSE IF InWindSpeedMap(PostcodeArea(postcode))
         THEN (CHOOSE e \in WindSpeedMap : e[1] = PostcodeArea(postcode))[2]
         ELSE 220000

\* lookup_wind_speed: the warnings appended
LookupWarnings(postcode) ==
    IF postcode = <<>> THEN <<"no_postcode">>
    ELSE IF InWindSpeedMap(PostcodeArea(postcode)) THEN <<>>
         ELSE <<"area_not_in_database">>

\* calculate_altitude_factor
AltitudeFactor(altitude, height) ==
    LET z_s == Mul(6000, height)
    IN  IF z_s >= Fix(10)
        THEN SCALE + Mul(Mul(10, altitude), Pow(Div(Fix(10), z_s), 2000))
        ELSE SCALE + Mul(10, altitude)

\* the zone with 'town' tested before the shoreline
ExposureZoneTownFirst(distance_to_shore, terrain_type) ==
    IF terrain_type = "town" THEN "C"
    ELSE IF terrain_type = "sea" \/ distance_to_shore <= 1000 THEN "A"
    ELSE "B"

\* calculate_exposure_factor: the zone
ExposureZone(distance_to_shore, terrain_type) ==
    IF terrain_type = "sea" \/ distance_to_shore <= 1000 THEN "A"
    ELSE IF terrain_type = "town" THEN "C"
    ELSE "B"

\* an exposure factor that gives a town the country curve
ExposureTownAsCountry(height, displacement, distance_to_shore, terrain_type) ==
    LET z_eff == Max(height - displacement, Fix(2))
        zone == ExposureZone(distance_to_shore, terrain_type)
        lg == Ln(Div(z_eff, Fix(10)))
        c_e_A == IF z_eff <= Fix(10) THEN 25000 ELSE 25000 + Mul(2000, lg)
        c_e_B == IF z_eff <= Fix(10) THEN 21000 ELSE 21000 + Mul(2200, lg)
        factor == Min(Div(distance_to_shore, Fix(100)), SCALE)
    IN  IF zone = "A" THEN c_e_A
        ELSE IF zone = "C" THEN c_e_B
        ELSE IF distance_to_shore < Fix(100)
             THEN c_e_A + Mul(factor, c_e_B - c_e_A)
             ELSE c_e_B

\* calculate_exposure_factor: c_e
ExposureFactor(height, displacement, distance_to_shore, terrain_type) ==
    LET z_eff == Max(height - displacement, Fix(2))
        zone == ExposureZone(distance_to_shore, terrain_type)
        lg == Ln(Div(z_eff, Fix(10)))
        c_e_A == IF z_eff <= Fix(10) THEN 25000 ELSE 25000 + Mul(2000, lg)
        c_e_C == IF z_eff <= Fix(10) THEN 25000 ELSE 25000 + Mul(2800, lg)
        c_e_B == IF z_eff <= Fix(10) THEN 21000 ELSE 21000 + Mul(2200, lg)
        factor == Min(Div(distance_to_shore, Fix(100)), SCALE)
    IN  IF zone = "A" THEN c_e_A
        ELSE IF zone = "C" THEN c_e_C
        ELSE IF distance_to_shore < Fix(100)
             THEN c_e_A + Mul(factor, c_e_B - c_e_A)
             ELSE c_e_B

\* a town correction that grows with the height above 10 m
TownCorrectionByHeight(distance_into_town, height) ==
    IF distance_into_town <= 0 THEN SCALE
    ELSE IF distance_into_town >= Fix(4)
    THEN (IF height > Fix(10) THEN 11000 ELSE 10800)
    ELSE SCALE + Mul(200, distance_into_town)

\* calculate_town_correction
TownCorrection(distance_into_town, height) ==
    IF distance_into_town <= 0 THEN SCALE
    ELSE IF distance_into_town >= Fix(4) THEN 10800
    ELSE SCALE + Mul(200, distance_into_town)

\* a peak velocity pressure that leaves the town correction out
PeakVelocityPressureOpenTerrain(v_map, c_alt, c_dir, c_e, c_e_T) ==
    LET velocity == Mul(Mul(v_map, c_alt), c_dir)
    IN  Mul(Mul(6130, Mul(velocity, velocity)), c_e)

\* calculate_peak_velocity_pressure (Pa)
PeakVelocityPressure(v_map, c_alt, c_dir, c_e, c_e_T) ==
    LET velocity == Mul(Mul(v_map, c_alt), c_dir)
    IN  Mul(Mul(Mul(6130, Mul(velocity, velocity)), c_e), c_e_T)

\* calculate_size_factor: the value at b + h = 300 for the zone's endpoints
SizeFactor300(z_eff, lo, hi) ==
    IF z_eff <= Fix(6) THEN lo
    ELSE IF z_eff >= Fix(200) THEN hi
    ELSE lo + Div(Mul(hi - lo, Ln(Div(z_eff, Fix(6)))), Ln(Div(Fix(200), Fix(6))))

\* calculate_size_factor
SizeFactor(width, height, z_eff, zone) ==
    LET b_plus_h == width + height
        lo == IF zone = "A" THEN 8100 ELSE IF zone = "C" THEN 7500 ELSE 7800
        hi == IF zone = "A" THEN 8800 ELSE IF zone = "C" THEN 8500 ELSE 8700
        c_s_300 == IF z_eff <= Fix(6) THEN lo
                   ELSE lo + Div(Mul(hi - lo, Ln(Div(z_eff, Fix(6)))),
                                 Ln(Div(Fix(200), Fix(6))))
    IN  IF b_plus_h <= Fix(5) THEN SCALE
        ELSE IF b_plus_h >= Fix(300) THEN SizeFactor300(z_eff, lo, hi)
        ELSE SCALE + Div(Mul(c_s_300 - SCALE, Ln(Div(b_plus_h, Fix(5)))),
                         Ln(Div(Fix(300), Fix(5))))

\* table_0_08 of calculate_dynamic_factor: h/b -> c_d
DynamicTable ==
    << <<2500, 10200>>, <<5000, 10300>>, <<10000, 10600>>, <<20000, 11000>>,
       <<40000, 11700>>, <<100000, 12400>> >>

\* calculate_dynamic_factor: height / width is a Python float division
DynamicFactorRaises(height, width) == height > Fix(15) /\ width = 0

\* calculate_dynamic_factor: the loop over the table finds no interval that
\* holds h/b, and the function falls through to its last return
DynamicFallback(h_over_b) ==
    /\ DynamicTable[1][1] < h_over_b
    /\ h_over_b < DynamicTable[Len(DynamicTable)][1]
    /\ \A j \in 1..(Len(DynamicTable) - 1) :
          ~(DynamicTable[j][1] <= h_over_b /\ h_over_b <= DynamicTable[j + 1][1])

\* a dynamic factor read off the table without interpolation
DynamicFactorStepped(height, width) ==
    LET h_over_b == Div(height, width)
        t == DynamicTable
        i == CHOOSE j \in 1..(Len(t) - 1) :
                /\ t[j][1] <= h_over_b /\ h_over_b <= t[j + 1][1]
                /\ \A k \in 1..(j - 1) : ~(t[k][1] <= h_over_b /\ h_over_b <= t[k + 1][1])
    IN  IF height <= Fix(15) THEN SCALE
        ELSE IF h_over_b <= t[1][1] THEN t[1][2]
        ELSE IF h_over_b >= t[Len(t)][1] THEN t[Len(t)][2]
        ELSE IF DynamicFallback(h_over_b) THEN 11000
        ELSE t[i][2]

\* calculate_dynamic_factor (width # 0 when height > 15)
DynamicFactor(height, width) ==
    LET h_over_b == Div(height, width)
        t == DynamicTable
        i == CHOOSE j \in 1..(Len(t) - 1) :
                /\ t[j][1] <= h_over_b /\ h_over_b <= t[j + 1][1]
                /\ \A k \in 1..(j - 1) : ~(t[k][1] <= h_over_b /\ h_over_b <= t[k + 1][1])
    IN  IF height <= Fix(15) THEN SCALE
        ELSE IF h_over_b <= t[1][1] THEN t[1][2]
        ELSE IF h_over_b >= t[Len(t)][1] THEN t[Len(t)][2]
        ELSE IF DynamicFallback(h_over_b) THEN 11000
        ELSE t[i][2] + Div(Mul(t[i + 1][2] - t[i][2], h_over_b - t[i][1]),
                           t[i + 1][1] - t[i][1])

\* The branch formulae of P394 Table 5.3 for a ratio h/d, as
\* calculate_force_coefficient evaluates them after its clamp
ForceCoefficientFormula(h_over_d) ==
    IF 2500 <= h_over_d /\ h_over_d <= SCALE
    THEN 9350 + Mul(1839, Ln(h_over_d))
    ELSE IF SCALE < h_over_d /\ h_over_d <= Fix(5)
    THEN Mul(8125 + Mul(375, h_over_d), 11000 + Mul(1243, Ln(h_over_d)))
    ELSE IF h_over_d < 2500 THEN 6800
    ELSE SCALE

\* calculate_force_coefficient: Python's float division raises on depth = 0
ForceCoefficientRaises(height, depth) == depth = 0

\* calculate_force_coefficient: the warnings appended (depth # 0)
ForceCoefficientWarnings(height, depth) ==
    IF Div(height, depth) > Fix(5) THEN <<"h_over_d_gt_5">> ELSE <<>>

\* calculate_force_coefficient without the clamp of h/d to 5
ForceCoefficientUnclamped(height, depth) ==
    ForceCoefficientFormula(Div(height, depth))

\* calculate_force_coefficient: the value returned (depth # 0)
ForceCoefficient(height, depth) ==
    LET h_over_d == Div(height, depth)
    IN  ForceCoefficientFormula(IF h_over_d > Fix(5) THEN Fix(5) ELSE h_over_d)

\* calculate_wind_force (whole N)
WindForce(q_p, c_s, c_d, c_f, area) ==
    MulWhole(Mul(Mul(Mul(q_p, c_s), c_d), c_f), area)

\* an assessment whose size check sets CAUTION whatever came before
AssessAdequacyLowered(q_p, force_kN, sign_area, height) ==
    LET force_per_sqm == IF sign_area > 0 THEN Div(force_kN, sign_area) ELSE 0
        s1 == IF q_p <= Fix(1200) THEN "PASS"
              ELSE IF q_p <= Fix(1500) THEN "CAUTION" ELSE "FAIL"
        s2 == IF force_per_sqm <= 15000 THEN s1
              ELSE IF force_per_sqm <= 20000
                   THEN (IF s1 = "PASS" THEN "CAUTION" ELSE s1)
                   ELSE "FAIL"
        s3 == IF sign_area > Fix(30) THEN "CAUTION" ELSE s2
    IN  IF height > Fix(20) /\ s3 # "FAIL" THEN "CAUTION" ELSE s3

\* assess_adequacy: overall_status
AssessAdequacy(q_p, force_kN, sign_area, height) ==
    LET force_per_sqm == IF sign_area > 0 THEN Div(force_kN, sign_area) ELSE 0
        s1 == IF q_p <= Fix(1200) THEN "PASS"
              ELSE IF q_p <= Fix(1500) THEN "CAUTION" ELSE "FAIL"
        s2 == IF force_per_sqm <= 15000 THEN s1
              ELSE IF force_per_sqm <= 20000
                   THEN (IF s1 = "PASS" THEN "CAUTION" ELSE s1)
                   ELSE "FAIL"
        s3 == IF sign_area > Fix(30) /\ s2 # "FAIL" THEN "CAUTION" ELSE s2
    IN  IF height > Fix(20) /\ s3 # "FAIL" THEN "CAUTION" ELSE s3

\* calculate_wind_loading, Stages 1-10: the speed and the factors of q_p
WallFactors(inputs) ==
    [v_map |-> IF inputs.v_map = 0 THEN LookupWindSpeed(inputs.postcode)
               ELSE inputs.v_map,
     c_alt |-> AltitudeFactor(inputs.site_altitude, inputs.building_height),
     c_dir |-> SCALE,
     c_e |-> ExposureFactor(inputs.building_height, 0, inputs.distance_to_shore,
                            inputs.terrain_type),
     zone |-> ExposureZone(inputs.distance_to_shore, inputs.terrain_type),
     c_e_T |-> IF inputs.terrain_type = "town" /\ inputs.distance_into_town > 0
               THEN TownCorrection(inputs.distance_into_town,
                                   inputs.building_height)
               ELSE SCALE,
     z_eff |-> inputs.building_height - 0]

\* calculate_wind_loading, Stages 11-21: q_p and the coefficients of the force
\* (c_f is left 0 where calculate_force_coefficient raises)
WallCoefficients(inputs, f) ==
    [q_p |-> PeakVelocityPressure(f.v_map, f.c_alt, f.c_dir, f.c_e, f.c_e_T),
     c_s |-> SizeFactor(inputs.sign_width, inputs.sign_height, f.z_eff, f.zone),
     c_d |-> DynamicFactor(inputs.building_height, inputs.sign_width),
     A_ref |-> Mul(inputs.sign_width, inputs.sign_height),
     c_f |-> IF ForceCoefficientRaises(inputs.sign_height, inputs.sign_depth)
             THEN 0
             ELSE ForceCoefficient(inputs.sign_height, inputs.sign_depth)]

\* calculate_wind_loading: the warnings appended before Stage 21
WallWarningsBefore(inputs) ==
    (IF inputs.v_map = 0 THEN LookupWarnings(inputs.postcode) ELSE <<>>)
        \o <<"non_directional", "orography">>

\* calculate_wind_loading: the results dictionary, for the force F_w (N)
WallResult(inputs, f, g, F_w) ==
    [raised |-> FALSE,
     msgs |-> WallWarningsBefore(inputs)
                \o ForceCoefficientWarnings(inputs.sign_height, inputs.sign_depth),
     v_map |-> f.v_map, c_alt |-> f.c_alt, c_dir |-> f.c_dir, c_e |-> f.c_e,
     zone |-> f.zone, c_e_T |-> f.c_e_T, q_p |-> g.q_p, c_s |-> g.c_s,
     z_eff |-> f.z_eff, c_d |-> g.c_d, A_ref |-> g.A_ref, c_f |-> g.c_f,
     force_N |-> F_w, force_kN |-> F_w * 10,
     moment_kNm |-> Mul(F_w * 10,
                        inputs.building_height - inputs.sign_height \div 2),
     lever_arm |-> inputs.building_height - inputs.sign_height \div 2,
     assessment |-> AssessAdequacy(g.q_p, F_w * 10, g.A_ref,
                                   inputs.building_height)]

\* calculate_wind_loading, Stage 24: the wind force
WallForce(inputs, f, g) ==
    WallResult(inputs, f, g, WindForce(g.q_p, g.c_s, g.c_d, g.c_f, g.A_ref))

\* calculate_wind_loading from Stage 11 on
WallStages(inputs, f) == WallForce(inputs, f, WallCoefficients(inputs, f))

\* WindLoadCalculator.calculate_wind_loading after its reset: the warnings it
\* appends, whether it raises (ZeroDivisionError of Stage 21), and the result
WallPipeline(inputs) ==
    IF ForceCoefficientRaises(inputs.sign_height, inputs.sign_depth)
    THEN [raised |-> TRUE, msgs |-> WallWarningsBefore(inputs)]
    ELSE WallStages(inputs, WallFactors(inputs))

(***************************************************************************)
(* PostMountedCalculator.  Post dimensions (mm) and section properties     *)
(* (I in mm^4, W_el in mm^3, A in mm^2) are whole numbers; stresses        *)
(* (N/mm^2) are held in hundredths; forces in kN and moments in kNm are    *)
(* fixed-point.                                                            *)
(***************************************************************************)

\* calculate_force_coefficient_freestanding: h_over_d
FreestandingRatio(height, depth) ==
    IF depth > 0 THEN Div(height, depth) ELSE Fix(999)

\* calculate_force_coefficient_freestanding: the value returned
ForceCoefficientFreestanding(height, depth, width) ==
    LET h_over_d == FreestandingRatio(height, depth)
    IN  IF 2500 <= h_over_d /\ h_over_d <= SCALE
        THEN Mul(9350 + Mul(1839, Ln(h_over_d)), 11000)
        ELSE IF SCALE < h_over_d /\ h_over_d <= Fix(5)
        THEN Mul(Mul(8125 + Mul(375, h_over_d), 11000 + Mul(1243, Ln(h_over_d))),
                 11000)
        ELSE IF h_over_d < 2500 THEN Mul(6800, 11000)
        ELSE Mul(SCALE, 11000)

\* calculate_force_coefficient_freestanding: the warnings appended
FreestandingWarnings(height, depth, width) ==
    LET h_over_d == FreestandingRatio(height, depth)
    IN  IF h_over_d > Fix(5) THEN <<"h_over_d_gt_5_freestanding">> ELSE <<>>

\* np.pi * x for a whole number x, floored
TimesPi(x) == Mul(x, 31416)

\* floor(100 * a / b) for whole a, b > 0: a quotient in hundredths
DivC(a, b) == (a \div b) * 100 + ((a % b) * 100) \div b

\* calculate_post_stresses: a hollow section's W_el = I / (size_out / 2) is a
\* Python float division, which raises ZeroDivisionError on size_out = 0
PostSectionRaises(size_out, section_type, is_solid) ==
    ~is_solid /\ size_out = 0

\* section properties whose solid circular W_el is taken about the diameter
\* squared: pi D^3 / 64 in place of pi D^3 / 32
PostSectionHalfModulus(size_out, t, section_type, is_solid) ==
    LET s_in == size_out - 2 * t
        out4 == size_out * size_out * size_out * size_out
        in4 == s_in * s_in * s_in * s_in
    IN  IF section_type = "square"
        THEN IF is_solid
             THEN <<out4 \div 12, (size_out * size_out * size_out) \div 6,
                    size_out * size_out>>
             ELSE <<(out4 - in4) \div 12,
                    (2 * ((out4 - in4) \div 12)) \div size_out,
                    size_out * size_out - s_in * s_in>>
        ELSE IF is_solid
             THEN <<TimesPi(out4) \div 64,
                    TimesPi(size_out * size_out * size_out) \div 64,
                    TimesPi(size_out * size_out) \div 4>>
             ELSE <<TimesPi(out4 - in4) \div 64,
                    (2 * (TimesPi(out4 - in4) \div 64)) \div size_out,
                    TimesPi(size_out * size_out - s_in * s_in) \div 4>>

\* calculate_post_stresses: the section properties <<I, W_el, A>>
\* (size_out # 0 for a hollow section)
PostSection(size_out, t, section_type, is_solid) ==
    LET s_in == size_out - 2 * t
        out4 == size_out * size_out * size_out * size_out
        in4 == s_in * s_in * s_in * s_in
    IN  IF section_type = "square"
        THEN IF is_solid
             THEN <<out4 \div 12, (size_out * size_out * size_out) \div 6,
                    size_out * size_out>>
             ELSE <<(out4 - in4) \div 12,
                    (2 * ((out4 - in4) \div 12)) \div size_out,
                    size_out * size_out - s_in * s_in>>
        ELSE IF is_solid
             THEN <<TimesPi(out4) \div 64,
                    TimesPi(size_out * size_out * size_out) \div 32,
                    TimesPi(size_out * size_out) \div 4>>
             ELSE <<TimesPi(out4 - in4) \div 64,
                    (2 * (TimesPi(out4 - in4) \div 64)) \div size_out,
                    TimesPi(size_out * size_out - s_in * s_in) \div 4>>

\* calculate_post_stresses: <<sigma_Rd, tau_Rd>> in hundredths of N/mm^2
\* for f_y in whole N/mm^2
PostResistance(f_y, material) ==
    IF material = "steel"
    THEN <<f_y * 100, Div(f_y * 100, 17321)>>
    ELSE IF material = "aluminium"
    THEN <<Div(f_y * 100, 11000), Div(Div(f_y * 100, 17321), 11000)>>
    ELSE <<Div(Mul(f_y * 100, 9000), 13000), Div(Mul(400, 9000), 13000)>>

\* a status that fails a utilization of exactly 1.0
PassFailStrict(eta) == IF eta < SCALE THEN "PASS" ELSE "FAIL"

\* 'PASS' if eta <= 1.0 else 'FAIL'
PassFail(eta) == IF eta <= SCALE THEN "PASS" ELSE "FAIL"

\* calculate_post_stresses(M, F, size_out, t, f_y, section_type, material)
PostStresses(M, F, size_out, t, f_y, section_type, material) ==
    LET is_solid == material = "timber"
        sec == PostSection(size_out, t, section_type, is_solid)
        I == sec[1]
        W_el == sec[2]
        A == sec[3]
        M_Nmm == M * 100
        sigma_Ed == IF W_el > 0 THEN DivC(M_Nmm, W_el) ELSE 99999900
        rd == PostResistance(f_y, material)
        sigma_Rd == rd[1]
        tau_Rd == rd[2]
        eta_bending == IF sigma_Rd > 0 THEN Ratio(sigma_Ed, sigma_Rd) ELSE Fix(999)
        tau_Ed == IF A > 0 THEN (F * 10) \div A ELSE 99999900
        eta_shear == IF tau_Rd > 0 THEN Ratio(tau_Ed, tau_Rd) ELSE Fix(999)
    IN  IF PostSectionRaises(size_out, section_type, is_solid)
        THEN [raised |-> TRUE]
        ELSE [raised |-> FALSE, I |-> I, W_el |-> W_el, sigma_Ed |-> sigma_Ed,
              sigma_Rd |-> sigma_Rd, eta_bending |-> eta_bending,
              tau_Ed |-> tau_Ed, tau_Rd |-> tau_Rd, eta_shear |-> eta_shear,
              bending_status |-> PassFail(eta_bending),
              shear_status |-> PassFail(eta_shear)]

\* a foundation status that gives way under a large moment
FoundationStatusByMoment(M, F, embedment, foundation_type) ==
    IF foundation_type = "concrete"
    THEN IF embedment < SCALE \/ M > Fix(100) THEN "INADEQUATE"
         ELSE IF embedment < 15000 THEN "MARGINAL"
         ELSE "ADEQUATE"
    ELSE "REQUIRES DESIGN"

\* calculate_foundation_requirements: status
FoundationStatus(M, F, embedment, foundation_type) ==
    IF foundation_type = "concrete"
    THEN IF embedment < SCALE THEN "INADEQUATE"
         ELSE IF embedment < 15000 THEN "MARGINAL"
         ELSE "ADEQUATE"
    ELSE "REQUIRES DESIGN"

(***************************************************************************)
(* ProjectingSignCalculator.  Forces in kN, moments in kNm, lengths in m   *)
(* and pressures are fixed-point; bracket section dimensions (mm) and      *)
(* properties are whole numbers; stresses and deflections are held in      *)
(* hundredths (of N/mm^2, of mm).                                          *)
(***************************************************************************)

\* TERRAIN_PARAMS: terrain category -> <<z_0, z_min, k_r>>
TerrainCategories == {"0", "II", "III", "IV"}

TerrainParams(terrain) ==
    CASE terrain = "0" -> <<30, Fix(1), 1700>>
      [] terrain = "II" -> <<500, Fix(2), 1900>>
      [] terrain = "III" -> <<3000, Fix(5), 2200>>
      [] terrain = "IV" -> <<SCALE, Fix(10), 2400>>

\* calculate_basic_wind_velocity
BasicWindVelocity(v_b_0, c_dir, c_season) == Mul(Mul(v_b_0, c_dir), c_season)

\* calculate_roughness_factor
RoughnessFactor(z, z_0, k_r) == Mul(k_r, Ln(Div(z, z_0)))

\* calculate_turbulence_intensity (k_I = 1.0, c_0 = 1.0)
TurbulenceIntensity(z, z_0) == Div(SCALE, Mul(SCALE, Ln(Div(z, z_0))))

\* calculate_peak_pressure: q_p_Pa / 1000, the value returned
PeakPressure(v_m, I_v) ==
    LET q_p_Pa == Mul(Mul(Mul(5000, 12500), Mul(v_m, v_m)), SCALE + 7 * I_v)
    IN  q_p_Pa \div 1000

\* calculate_bracket_forces dividing by s whatever the number of brackets
BracketForcesRaisesAlways(n_brackets, s) == n_brackets = 0 \/ s = 0

\* calculate_bracket_forces: F_w_Ed / n_brackets, G_Ed / n_brackets and, for
\* two or more brackets, M_wall / s are Python float divisions
BracketForcesRaises(n_brackets, s) ==
    n_brackets = 0 \/ (n_brackets >= 2 /\ s = 0)

\* calculate_bracket_forces: the warnings appended
BracketForcesWarnings(n_brackets) ==
    IF n_brackets >= 2 THEN <<>> ELSE <<"single_bracket">>

\* calculate_bracket_forces (where it does not raise)
BracketForces(F_w_Ed, e, n_brackets, s, G_Ed) ==
    LET V_per_bracket == F_w_Ed \div n_brackets
        M_wall == Mul(F_w_Ed, e)
        N_vertical == G_Ed \div n_brackets
        N_moment == IF n_brackets >= 2 THEN Div(M_wall, s) ELSE 0
    IN  [V_per_bracket |-> V_per_bracket, M_wall |-> M_wall,
         M_per_bracket |-> Mul(V_per_bracket, e), N_vertical |-> N_vertical,
         N_moment |-> N_moment, N_tension_max |-> N_moment + N_vertical]

\* calculate_anchor_utilization: N_vertical / n_fix and N_Rk / gamma_M are
\* Python float divisions
AnchorRaises(n_fix, gamma_M) == n_fix = 0 \/ gamma_M = 0

\* calculate_anchor_utilization (n_fix > 0, p_v > 0, gamma_M > 0)
AnchorUtilization(V_per_bracket, M_per_bracket, N_vertical, n_fix, p_v, N_Rk, V_Rk, gamma_M) ==
    LET V_Ed == V_per_bracket \div n_fix
        N_Ed == Div(M_per_bracket, (p_v * n_fix) \div 2) + N_vertical \div n_fix
        N_Rd == Div(N_Rk, gamma_M)
        V_Rd == Div(V_Rk, gamma_M)
        eta_tension == IF N_Rd > 0 THEN Ratio(N_Ed, N_Rd) ELSE Fix(999)
        eta_shear == IF V_Rd > 0 THEN Ratio(V_Ed, V_Rd) ELSE Fix(999)
        eta_combined == eta_tension + eta_shear
    IN  [raised |-> FALSE, N_Ed |-> N_Ed, V_Ed |-> V_Ed, N_Rd |-> N_Rd,
         V_Rd |-> V_Rd, eta_tension |-> eta_tension, eta_shear |-> eta_shear,
         eta_combined |-> eta_combined,
         tension_status |-> PassFail(eta_tension),
         shear_status |-> PassFail(eta_shear),
         combined_status |-> PassFail(eta_combined)]

\* calculate_bracket_stresses: W_el = 2 * I / h_out is a Python float division
BracketStressesRaises(h_out) == h_out = 0

\* calculate_bracket_stresses (h_out > 0)
BracketStresses(V_per_bracket, L, b_out, h_out, t, f_y) ==
    LET b_in == b_out - 2 * t
        h_in == h_out - 2 * t
        I == (b_out * h_out * h_out * h_out - b_in * h_in * h_in * h_in) \div 12
        W_el == (2 * I) \div h_out
        M_Ed == Mul(V_per_bracket, L)
        sigma_Ed == IF W_el > 0 THEN DivC(M_Ed * 100, W_el) ELSE 99999900
        sigma_Rd == f_y * 100
        eta_bending == IF sigma_Rd > 0 THEN Ratio(sigma_Ed, sigma_Rd) ELSE Fix(999)
        A_v == 2 * h_out * t
        tau_Ed == IF A_v > 0 THEN (V_per_bracket * 10) \div A_v ELSE 99999900
        tau_Rd == Div(f_y * 100, 17321)
        eta_shear == IF tau_Rd > 0 THEN Ratio(tau_Ed, tau_Rd) ELSE Fix(999)
    IN  [raised |-> FALSE, I |-> I, W_el |-> W_el, M_Ed |-> M_Ed,
         sigma_Ed |-> sigma_Ed, sigma_Rd |-> sigma_Rd,
         eta_bending |-> eta_bending, tau_Ed |-> tau_Ed, tau_Rd |-> tau_Rd,
         eta_shear |-> eta_shear,
         bending_status |-> PassFail(eta_bending),
         shear_status |-> PassFail(eta_shear)]

\* calculate_deflection (n_brackets > 0; E, I whole)
Deflection(F_w_k, n_brackets, L, E, I) ==
    LET F_SLS == (F_w_k \div n_brackets) * 1000
        L_mm == L \div 10
        delta == IF I > 0
                 THEN DivC(MulWhole(F_SLS, Div(L_mm * L_mm * L_mm, 3 * E)), I)
                 ELSE 99999900
        delta_limit == Min(Div(L_mm, 150) \div 100, 2000)
        eta_deflection == IF delta_limit > 0 THEN Ratio(delta, delta_limit)
                          ELSE Fix(999)
    IN  [delta |-> delta, delta_limit |-> delta_limit,
         eta_deflection |-> eta_deflection,
         deflection_status |-> PassFail(eta_deflection)]

(***************************************************************************)
(* SignConstructionCalculator.  channel_spacing L is in whole mm and       *)
(* wind_pressure in Pa (fixed-point).  delta = 5 w L^4 / (384 E I) and     *)
(* sigma = w L^2 / (8 W) are evaluated with L in units of 100 mm and E in  *)
(* units of 1000 MPa, which keeps the same values in mm and MPa.           *)
(***************************************************************************)

\* MATERIALS: key -> <<E (or E_face), f_y (or f_y_face), I_per_width, W_per_width>>
PanelMaterials == {"acm_3mm", "aluminium_3mm", "steel_composite_3mm", "aluminium_4mm"}

PanelMaterial(key) ==
    CASE key = "acm_3mm" -> <<70000, 100, 945000, 630000>>
      [] key = "aluminium_3mm" -> <<70000, 100, 22500, 15000>>
      [] key = "steel_composite_3mm" -> <<210000, 235, 4725000, 3150000>>
      [] key = "aluminium_4mm" -> <<70000, 100, 53300, 26700>>

\* calculate_panel_adequacy: ValueError("Unknown material: ...")
PanelUnknownMaterial(material_key) == material_key \notin PanelMaterials

\* calculate_panel_adequacy: sign_height / spacing in _calculate_num_channels
\* is a Python float division
PanelDivisionRaises(L) == L = 0

\* floor of the square root of n >= 0, by bisection between lo and hi
RECURSIVE SqrtBisect(_, _, _)
SqrtBisect(n, lo, hi) ==
    IF hi - lo <= 1 THEN lo
    ELSE IF ((lo + hi) \div 2) * ((lo + hi) \div 2) <= n
         THEN SqrtBisect(n, (lo + hi) \div 2, hi)
         ELSE SqrtBisect(n, lo, (lo + hi) \div 2)

\* x ** 0.5, rounded down to a whole number
SquareRoot(n) == SqrtBisect(n, 0, 46341)

\* calculate_panel_adequacy: L_max_recommended (whole mm, rounded down), from
\*   ((384 * E * I * delta_limit) / (5 * w)) ** 0.25, delta_limit = L / 200,
\*   ((8 * W * sigma_limit) / w) ** 0.5
PanelMaxSpacing(L, w, EI, W_per_width, f_y, deflection_ok, stress_ok) ==
    Min(IF deflection_ok THEN L
        ELSE SquareRoot(100 * SquareRoot(
                 Div(Mul(Div(L, 200), EI), 5 * w) * 384)),
        IF stress_ok THEN L
        ELSE SquareRoot(Div(Mul(Fix(f_y), W_per_width), Mul(w, 12500))))

\* a channel count that rounds the number of spans down
NumChannelsFloor(sign_height, spacing) ==
    Max(sign_height \div spacing + 1, 2)

\* _calculate_num_channels(sign_height, spacing) for whole mm, spacing > 0:
\* max(int(np.ceil(sign_height / spacing) + 1), 2)
NumChannels(sign_height, spacing) ==
    Max((0 - ((0 - sign_height) \div spacing)) + 1, 2)

\* calculate_panel_adequacy: the deflection and stress checks (known
\* material, L > 0), for the default sign_height of 2.0 m
PanelAdequacy(material_key, L, q_p) ==
    LET m == PanelMaterial(material_key)
        E == m[1]
        f_y == m[2]
        I_per_width == m[3]
        W_per_width == m[4]
        w == q_p \div 1000
        L1 == L * 100
        L2 == Mul(L1, L1)
        L4 == Mul(L2, L2)
        EI == Mul(Fix(E \div 1000), I_per_width) \div 100
        delta == Div(Mul(5 * w, L4) \div 384, EI)
        sigma == IF W_per_width > 0
                 THEN Div(Mul(Mul(w, L2), 12500), W_per_width)
                 ELSE Fix(999999)
        delta_limit == Div(L, 200)
        sigma_limit == Fix(f_y)
        deflection_ok == delta <= delta_limit
        stress_ok == sigma <= sigma_limit
    IN  [raised |-> FALSE,
         deflection |-> [calculated |-> delta, limit |-> delta_limit,
                         status |-> IF deflection_ok THEN "PASS" ELSE "FAIL",
                         utilization |-> IF delta_limit > 0
                                         THEN Ratio(delta, delta_limit)
                                         ELSE Fix(999)],
         stress |-> [calculated |-> sigma, limit |-> sigma_limit,
                     status |-> IF stress_ok THEN "PASS" ELSE "FAIL",
                     utilization |-> IF sigma_limit > 0
                                     THEN Ratio(sigma, sigma_limit)
                                     ELSE Fix(999)],
         overall_status |-> IF deflection_ok /\ stress_ok THEN "ADEQUATE"
                            ELSE "INADEQUATE",
         num_channels_current |-> NumChannels(2000, L),
         num_channels_recommended |->
             NumChannels(2000, PanelMaxSpacing(L, w, EI, W_per_width, f_y,
                                               deflection_ok, stress_ok)),
         max_spacing_recommended |->
             PanelMaxSpacing(L, w, EI, W_per_width, f_y, deflection_ok,
                             stress_ok)]

(***************************************************************************)
(* The state: one calculator instance, the Python list objects that hold   *)
(* warnings, and the result of the operation most recently started.        *)
(***************************************************************************)
VARIABLES
    engine,         \* the class of the calculator instance of this session
    heap,           \* the live list objects: identity -> sequence of warnings
    self_warnings,  \* the list object the instance's self.warnings refers to
    last,           \* what the latest operation returned or raised
    held,           \* the calculate_wind_loading result the caller got before
    pc,             \* position in PostMountedCalculator.calculate_wind_loading
    frame,          \* the locals of that call while it runs
    nops,           \* operations started so far
    calls,          \* requests served at once: each one's position and locals
    instances,      \* for those requests: instance -> its self.warnings list
    lists           \* for those requests: list identity -> sequence of warnings

vars == <<engine, heap, self_warnings, last, held, pc, frame, nops,
          calls, instances, lists>>

\* the state of one session on one instance
svars == <<engine, heap, self_warnings, last, held, pc, frame, nops>>

\* the state of requests served at once
tvars == <<calls, instances, lists>>

\* operations in one session
MaxOps == 3

Engines == {"wall", "post", "projecting", "panel"}

\* a key that the inputs mapping does not hold
Absent == 0 - 1
Has(x) == x # Absent
Get(x, default) == IF Has(x) THEN x ELSE default

NoResult == [op |-> "none", status |-> "none"]
NoFrame == [appended |-> <<>>]
NoHeld == [status |-> "none"]

\* the results dictionary the caller keeps once the operation that returned
\* `result` is over: a calculate_wind_loading result, with what its warnings
\* list held when it was returned; otherwise the one kept before
Held(result, h, kept) ==
    IF result.op = "calculate_wind_loading" /\ result.status = "ok"
    THEN [status |-> "ok", result |-> result, snapshot |-> h[result.warnings]]
    ELSE kept

\* the list object a kept results dictionary refers to
HeldLive(k) == IF k.status = "ok" THEN {k.result.warnings} ELSE {}

\* the warnings an operation appends, each marked with the operation's number
Tag(msgs, id) == [i \in 1..Len(msgs) |-> [op |-> id, msg |-> msgs[i]]]

Msgs(list) == {list[i].msg : i \in 1..Len(list)}

\* calculate_wind_loading without its reset: self.warnings stays the list
\* object it was
ResetWarningsKept(current, fresh) == current

\* self.warnings = []: the list object self.warnings refers to afterwards
\* (fresh, a new empty list)
ResetWarnings(current, fresh) == fresh

\* the heap once list object lst holds what it held (nothing, when new) and
\* msgs appended; list objects that nothing refers to any more are dropped
Appended(h, lst, msgs, id, live) ==
    LET old == IF lst \in DOMAIN h THEN h[lst] ELSE <<>>
    IN  [i \in ((DOMAIN h) \cup {lst}) \cap (live \cup {lst}) |->
            IF i = lst THEN old \o Tag(msgs, id) ELSE h[i]]

Init ==
    /\ engine \in Engines
    /\ heap = [i \in {<<0, 0>>} |-> <<>>]
    /\ self_warnings = <<0, 0>>
    /\ last = NoResult
    /\ held = NoHeld
    /\ pc = "idle"
    /\ frame = NoFrame
    /\ nops = 0
    /\ calls = <<>>
    /\ instances = <<>>
    /\ lists = <<>>

Idle(e) == engine = e /\ pc = "idle" /\ nops < MaxOps

\* an operation that returns or raises at once, leaving self.warnings at
\* list object lst with msgs appended
Finish(lst, msgs, result) ==
    /\ nops' = nops + 1
    /\ self_warnings' = lst
    /\ held' = Held(last, heap, held)
    /\ heap' = Appended(heap, lst, msgs, nops + 1,
                        {lst} \cup HeldLive(Held(last, heap, held)))
    /\ last' = result
    /\ UNCHANGED <<engine, pc, frame, tvars>>

(***************************************************************************)
(* Operations on a WindLoadCalculator instance                             *)
(***************************************************************************)
WallBase ==
    [sign_width |-> 30000, sign_height |-> 15000, sign_depth |-> 3000,
     building_height |-> 60000, site_altitude |-> 500000, v_map |-> 220000,
     postcode |-> <<>>, distance_to_shore |-> 500000,
     terrain_type |-> "country", distance_into_town |-> 0]

Sheffield ==
    [sign_width |-> 200000, sign_height |-> 270000, sign_depth |-> 290000,
     building_height |-> 270000, site_altitude |-> 1050000, v_map |-> 221000,
     postcode |-> <<>>, distance_to_shore |-> 1000000,
     terrain_type |-> "town", distance_into_town |-> 20000]

Postcodes ==
    {<<>>, <<"B", "1">>, <<"z", "e", "1">>, <<"X", "X", "1">>, <<" ", "b", "1", " ">>,
     <<" ">>, <<"1", "B", "1">>}

WallInputs ==
    {WallBase, Sheffield}
    \cup {[WallBase EXCEPT !.sign_depth = d] : d \in {0, 2000, 30000, 100000}}
    \cup {[WallBase EXCEPT !.v_map = 0, !.postcode = p] : p \in Postcodes}
    \cup {[WallBase EXCEPT !.v_map = 0, !.postcode = <<>>, !.sign_depth = 2000]}
    \cup {[Sheffield EXCEPT !.distance_to_shore = 500],
          [WallBase EXCEPT !.sign_height = Fix(30), !.building_height = Fix(2)],
          [WallBase EXCEPT !.building_height = Fix(200),
                           !.site_altitude = Fix(2000)],
          [WallBase EXCEPT !.sign_width = Fix(50), !.sign_height = Fix(30),
                           !.sign_depth = Fix(10)],
          [WallBase EXCEPT !.sign_width = 1, !.sign_height = 1,
                           !.sign_depth = 1, !.building_height = Fix(2),
                           !.site_altitude = 0]}

\* <<height, depth>> pairs around the branch boundaries of c_f
RatioPairs ==
    {<<h, Fix(1)>> : h \in {2000, 2499, 2500, 2501, 6000, 9999, 10000, 10001,
                            30000, 49999, 50000, 50001, 80000}}
    \cup {<<15000, 0>>, <<15000, 3000>>, <<20000, 3000>>}

\* what calculate_wind_loading computes for each of the inputs above
WallResults == [inputs \in WallInputs |-> WallPipeline(inputs)]

\* calculate_wind_loading(inputs)
WallCalculateWindLoading(inputs) ==
    /\ Idle("wall")
    /\ \E r \in {WallResults[inputs]} :
         \E lst \in {ResetWarnings(self_warnings, <<nops + 1, 1>>)} :
           Finish(lst, r.msgs,
                  IF r.raised
                  THEN [op |-> "calculate_wind_loading", status |-> "raised",
                        id |-> nops + 1, inputs |-> inputs,
                        error |-> "ZeroDivisionError"]
                  ELSE [op |-> "calculate_wind_loading", status |-> "ok",
                        id |-> nops + 1, inputs |-> inputs, result |-> r,
                        warnings |-> lst])

\* lookup_wind_speed(postcode), called directly
WallLookupWindSpeed(postcode) ==
    /\ Idle("wall")
    /\ Finish(self_warnings, LookupWarnings(postcode),
              [op |-> "lookup_wind_speed", status |-> "ok", id |-> nops + 1,
               postcode |-> postcode, value |-> LookupWindSpeed(postcode),
               appended |-> LookupWarnings(postcode)])

\* calculate_force_coefficient(height, depth), called directly
WallCalculateForceCoefficient(height, depth) ==
    /\ Idle("wall")
    /\ IF ForceCoefficientRaises(height, depth)
       THEN Finish(self_warnings, <<>>,
                   [op |-> "calculate_force_coefficient", status |-> "raised",
                    id |-> nops + 1, height |-> height, depth |-> depth,
                    error |-> "ZeroDivisionError"])
       ELSE Finish(self_warnings, ForceCoefficientWarnings(height, depth),
                   [op |-> "calculate_force_coefficient", status |-> "ok",
                    id |-> nops + 1, height |-> height, depth |-> depth,
                    value |-> ForceCoefficient(height, depth),
                    appended |-> ForceCoefficientWarnings(height, depth)])

\* terrain types, one of them outside 'sea' / 'country' / 'town'
TerrainTypes == {"sea", "country", "town", "forest"}

\* distances to the shoreline (km) around the 0.1 km limit of zone A and on
\* the 100 km limit of the interpolation
ShoreDistances == {0, 999, 1000, 1001, Fix(50), Fix(100)}

\* what calculate_exposure_factor returns as c_e for <<height,
\* distance_to_shore, terrain_type>> at heights of 6 and 27 m (@@ <<>> leaves
\* the function as it is and has it tabulated once)
ExposureResults ==
    [a \in {Fix(6), Fix(27)} \X ShoreDistances \X TerrainTypes |->
        ExposureFactor(a[1], 0, a[2], a[3])]
    @@ <<>>

\* calculate_exposure_factor(height, displacement, distance_to_shore,
\* terrain_type), called directly
WallCalculateExposureFactor(height, distance_to_shore, terrain_type) ==
    /\ Idle("wall")
    /\ Finish(self_warnings, <<>>,
              [op |-> "calculate_exposure_factor", status |-> "ok",
               id |-> nops + 1, height |-> height,
               distance_to_shore |-> distance_to_shore,
               terrain_type |-> terrain_type,
               value |-> ExposureResults[<<height, distance_to_shore,
                                           terrain_type>>],
               zone |-> ExposureZone(distance_to_shore, terrain_type)])

\* sign widths (m) that with a height of 2 m put width + height at 4, 5, 6,
\* 50, 150, just under 300, 300 and 400 m
SizeWidths ==
    {Fix(2), Fix(3), Fix(4), Fix(48), Fix(148), Fix(298) - 1, Fix(298),
     Fix(398)}

\* effective heights (m) inside and above the table's range of 6 to 200 m
SizeHeights == {Fix(10), Fix(200), Fix(400)}

\* what calculate_size_factor returns for <<width, z_eff, zone>> and a sign
\* height of 2 m (tabulated once)
SizeFactorResults ==
    [a \in SizeWidths \X SizeHeights \X {"A", "B", "C"} |->
        SizeFactor(a[1], Fix(2), a[2], a[3])]
    @@ <<>>

\* calculate_size_factor(width, height, z_eff, zone), called directly
WallCalculateSizeFactor(width, height, z_eff, zone) ==
    /\ Idle("wall")
    /\ Finish(self_warnings, <<>>,
              [op |-> "calculate_size_factor", status |-> "ok",
               id |-> nops + 1, width |-> width, height |-> height,
               z_eff |-> z_eff, zone |-> zone,
               value |-> SizeFactorResults[<<width, z_eff, zone>>]])

\* building breadths (m) that put h/b of a 30 m height at and around the
\* table's keys, from 0.125 to 15
DynamicWidths ==
    {0, Fix(2), Fix(3), Fix(5), 75000, Fix(15), Fix(30), Fix(45), Fix(60),
     Fix(120), Fix(240)}

\* calculate_dynamic_factor(height, width), called directly
WallCalculateDynamicFactor(height, width) ==
    /\ Idle("wall")
    /\ Finish(self_warnings, <<>>,
              IF DynamicFactorRaises(height, width)
              THEN [op |-> "calculate_dynamic_factor", status |-> "raised",
                    id |-> nops + 1, height |-> height, width |-> width,
                    error |-> "ZeroDivisionError"]
              ELSE [op |-> "calculate_dynamic_factor", status |-> "ok",
                    id |-> nops + 1, height |-> height, width |-> width,
                    value |-> DynamicFactor(height, width),
                    fallback |-> /\ height > Fix(15)
                                 /\ DynamicFallback(Div(height, width))])

\* <<q_p, force_kN, sign_width, sign_height, building_height>> on and just
\* over the limits of the four checks, alone and together
AssessInputs ==
    {<<q, Fix(5), Fix(2), Fix(5), Fix(5)>>
        : q \in {Fix(1200), Fix(1200) + 1, Fix(1500), Fix(1500) + 1}}
    \cup {<<Fix(800), F, Fix(2), Fix(5), Fix(5)>>
            : F \in {Fix(15), Fix(15) + 10, Fix(20), Fix(20) + 10}}
    \cup {<<Fix(800), Fix(5), w, Fix(5), h>>
            : w \in {Fix(6), Fix(6) + 1, 0}, h \in {Fix(20), Fix(20) + 1}}
    \cup {<<Fix(1600), Fix(5), Fix(8), Fix(5), Fix(25)>>,
          <<Fix(800), Fix(90), Fix(8), Fix(5), Fix(25)>>,
          <<Fix(1300), Fix(18), Fix(2), Fix(5), Fix(5)>>,
          <<Fix(1600), Fix(18), Fix(2), Fix(5), Fix(5)>>,
          <<Fix(1300), Fix(25), Fix(2), Fix(5), Fix(5)>>}

\* assess_adequacy(results, inputs), called directly
WallAssessAdequacy(a) ==
    /\ Idle("wall")
    /\ Finish(self_warnings, <<>>,
              [op |-> "assess_adequacy", status |-> "ok", id |-> nops + 1,
               q_p |-> a[1], force_kN |-> a[2], sign_area |-> Mul(a[3], a[4]),
               building_height |-> a[5],
               overall_status |->
                   AssessAdequacy(a[1], a[2], Mul(a[3], a[4]), a[5])])

\* distances into town (km) around 0 and 4 km
TownDistances == {0 - SCALE, 0, 1, 20000, 39999, 40000, 40001, Fix(10)}

\* calculate_town_correction(distance_into_town, height), called directly
WallCalculateTownCorrection(distance_into_town, height) ==
    /\ Idle("wall")
    /\ Finish(self_warnings, <<>>,
              [op |-> "calculate_town_correction", status |-> "ok",
               id |-> nops + 1, distance_into_town |-> distance_into_town,
               height |-> height,
               value |-> TownCorrection(distance_into_town, height)])

(***************************************************************************)
(* Operations on a PostMountedCalculator instance.  calculate_wind_loading *)
(* is followed statement by statement through the calls that touch         *)
(* self.warnings.                                                          *)
(***************************************************************************)
Missing == "<missing>"
GetStr(x, default) == IF x = Missing THEN default ELSE x

PostBaseInputs ==
    [sign_width |-> 30000, sign_height |-> 20000, sign_depth |-> 3000,
     sign_base_height |-> 25000, post_height |-> 45000,
     site_altitude |-> 500000, v_map |-> 225000, distance_to_shore |-> 200000,
     terrain_type |-> "country", distance_into_town |-> 0,
     post_diameter |-> 150, post_thickness |-> 8,
     post_section_type |-> "circular", post_material |-> "steel",
     post_steel_grade |-> 275, foundation_type |-> "concrete",
     embedment_depth |-> 15000]

PostInputs ==
    {PostBaseInputs}
    \cup {[PostBaseInputs EXCEPT !.sign_depth = d, !.post_diameter = D]
            : d \in {0, 3000, 4000, 5000, 20000, 100000}, D \in {Absent, 0, 150}}
    \cup {[PostBaseInputs EXCEPT !.post_material = m, !.post_section_type = s]
            : m \in {"steel", "aluminium", "timber", "bamboo"},
              s \in {"circular", "square", "hexagonal", Missing}}
    \cup {[PostBaseInputs EXCEPT !.post_material = m, !.post_diameter = 0,
                                 !.sign_depth = 5000]
            : m \in {"timber", Missing}}
    \cup {[PostBaseInputs EXCEPT !.post_thickness = t] : t \in {Absent, 0}}
    \cup {[PostBaseInputs EXCEPT !.embedment_depth = e, !.foundation_type = f]
            : e \in {Absent, 8000, 12000}, f \in {"concrete", "steel_base", Missing}}
    \cup {[PostBaseInputs EXCEPT !.post_steel_grade = 20],
          [PostBaseInputs EXCEPT !.post_height = Absent],
          [PostBaseInputs EXCEPT !.v_map = 0]}
    \cup {[PostBaseInputs EXCEPT !.sign_width = Fix(37), !.sign_height = Fix(4),
                                 !.sign_base_height = 0, !.post_height = Fix(4),
                                 !.post_diameter = 200, !.post_thickness = 0,
                                 !.post_section_type = "square",
                                 !.post_material = "timber"]}

\* wind_inputs, with building_height z
WindInputs(inputs, z) ==
    [sign_width |-> inputs.sign_width, sign_height |-> inputs.sign_height,
     sign_depth |-> inputs.sign_depth, building_height |-> z,
     site_altitude |-> inputs.site_altitude, v_map |-> inputs.v_map,
     postcode |-> <<>>, distance_to_shore |-> inputs.distance_to_shore,
     terrain_type |-> inputs.terrain_type,
     distance_into_town |-> inputs.distance_into_town]

ZCentroid(inputs) == inputs.sign_base_height + inputs.sign_height \div 2

PostHeight(inputs) ==
    Get(inputs.post_height, inputs.sign_base_height + inputs.sign_height)

\* post_size in m
PostSize(inputs) == Get(inputs.post_diameter, 0) * 10

\* c_f_post
PostForceCoefficient(post_section_type) ==
    IF post_section_type = "square" THEN Fix(2) ELSE 7000

\* line 87: what super().calculate_wind_loading(wind_inputs) computes at the
\* sign's centroid, for each of the inputs above
PostBaseResults ==
    [inputs \in PostInputs |-> WallPipeline(WindInputs(inputs, ZCentroid(inputs)))]

\* line 123: what super().calculate_wind_loading(post_inputs) computes at the
\* post's mid-height; the call is made for post_size > 0 only
PostShaftResults ==
    [inputs \in PostInputs |->
        IF PostSize(inputs) > 0
        THEN WallPipeline(WindInputs(inputs, PostHeight(inputs) \div 2))
        ELSE [raised |-> FALSE, msgs |-> <<"post_neglected">>, q_p |-> 0]]

\* the list objects a running call still refers to
FrameLive(f) == IF "base" \in DOMAIN f THEN {f.base_warnings} ELSE {}

\* line 61: self.warnings = []
PostBegin(inputs) ==
    /\ Idle("post")
    /\ LET lst == ResetWarnings(self_warnings, <<nops + 1, 1>>)
       IN  /\ self_warnings' = lst
           /\ heap' = Appended(heap, lst, <<>>, nops + 1,
                               {lst} \cup HeldLive(Held(last, heap, held)))
    /\ held' = Held(last, heap, held)
    /\ nops' = nops + 1
    /\ frame' = [inputs |-> inputs, id |-> nops + 1, appended |-> <<>>]
    /\ last' = [op |-> "calculate_wind_loading", status |-> "running",
                id |-> nops + 1]
    /\ pc' = "base"
    /\ UNCHANGED <<engine, tvars>>

\* line 87: base_results = super().calculate_wind_loading(wind_inputs)
PostBase ==
    /\ engine = "post" /\ pc = "base"
    /\ \E inputs \in {frame.inputs} :
         \E lst \in {ResetWarnings(self_warnings, <<frame.id, 2>>)} :
         \E r \in {PostBaseResults[inputs]} :
           /\ self_warnings' = lst
           /\ heap' = Appended(heap, lst, r.msgs, frame.id,
                               {lst} \cup HeldLive(held))
           /\ IF r.raised
              THEN /\ last' = [op |-> "calculate_wind_loading",
                               status |-> "raised", id |-> frame.id,
                               inputs |-> inputs, error |-> "ZeroDivisionError",
                               at |-> "base"]
                   /\ frame' = NoFrame
                   /\ pc' = "idle"
              ELSE /\ frame' = [inputs |-> inputs, id |-> frame.id,
                                appended |-> frame.appended \o r.msgs,
                                base |-> r, base_warnings |-> lst]
                   /\ pc' = "cf"
                   /\ UNCHANGED last
    /\ UNCHANGED <<engine, held, nops, tvars>>

\* line 103: F_w_sign (kN)
SignForce(q_p, c_s, c_d, c_f, A_ref) == WindForce(q_p, c_s, c_d, c_f, A_ref) * 10

\* lines 96-103: c_f = self.calculate_force_coefficient_freestanding(h, d, b)
PostCf ==
    /\ engine = "post" /\ pc = "cf"
    /\ LET inputs == frame.inputs
           h == inputs.sign_height
           d == inputs.sign_depth
           b == inputs.sign_width
           msgs == FreestandingWarnings(h, d, b)
           c_f == ForceCoefficientFreestanding(h, d, b)
           r == frame.base
       IN  /\ heap' = Appended(heap, self_warnings, msgs, frame.id,
                               {self_warnings} \cup FrameLive(frame)
                                   \cup HeldLive(held))
           /\ frame' = [inputs |-> inputs, id |-> frame.id,
                        appended |-> frame.appended \o msgs,
                        base |-> r, base_warnings |-> frame.base_warnings,
                        c_f |-> c_f,
                        F_w_sign |-> SignForce(r.q_p, r.c_s, r.c_d, c_f,
                                               Mul(b, h))]
    /\ pc' = "post"
    /\ UNCHANGED <<engine, self_warnings, last, held, nops, tvars>>

\* line 126: F_w_post (kN)
PostWindForce(q_p_post, c_f_post, A_post) ==
    Mul(Mul(q_p_post, c_f_post), A_post) \div 1000

\* lines 106-129: the wind force on the post
PostForce ==
    /\ engine = "post" /\ pc = "post"
    /\ \E inputs \in {frame.inputs} :
         \E post_size \in {PostSize(inputs)} :
         \E post_height \in {PostHeight(inputs)} :
         \E c_f_post \in {PostForceCoefficient(
                              GetStr(inputs.post_section_type, "circular"))} :
         \E lst \in {IF post_size > 0
                     THEN ResetWarnings(self_warnings, <<frame.id, 3>>)
                     ELSE self_warnings} :
         \E r \in {PostShaftResults[inputs]} :
         \E msgs \in {r.msgs} :
         \E F_w_post \in {IF post_size > 0
                          THEN PostWindForce(r.q_p, c_f_post,
                                             Mul(post_size, post_height))
                          ELSE 0} :
           /\ self_warnings' = lst
           /\ heap' = Appended(heap, lst, msgs, frame.id,
                               {lst} \cup FrameLive(frame) \cup HeldLive(held))
           /\ frame' = [inputs |-> inputs, id |-> frame.id,
                        appended |-> frame.appended \o msgs,
                        base |-> frame.base,
                        base_warnings |-> frame.base_warnings,
                        c_f |-> frame.c_f, F_w_sign |-> frame.F_w_sign,
                        F_w_post |-> F_w_post]
    /\ pc' = "checks"
    /\ UNCHANGED <<engine, last, held, nops, tvars>>

\* post_check = None, foundation_check = None
NoCheck == [present |-> FALSE]

\* lines 141-150: post_check
PostCheck(inputs, M_total, F_w_total) ==
    IF Has(inputs.post_diameter) /\ Has(inputs.post_thickness)
    THEN PostStresses(M_total, F_w_total, inputs.post_diameter,
                      inputs.post_thickness, Get(inputs.post_steel_grade, 275),
                      GetStr(inputs.post_section_type, "circular"),
                      GetStr(inputs.post_material, "steel"))
    ELSE NoCheck

\* lines 154-160: foundation_check
FoundationCheck(inputs, M_total, F_w_total) ==
    IF Has(inputs.embedment_depth)
    THEN [status |-> FoundationStatus(M_total, F_w_total, inputs.embedment_depth,
                                      GetStr(inputs.foundation_type, "concrete"))]
    ELSE NoCheck

\* lines 163-167: checks_pass
ChecksPass(post_check, foundation_check) ==
    /\ post_check # NoCheck => post_check.bending_status = "PASS"
    /\ foundation_check # NoCheck => foundation_check.status = "ADEQUATE"

\* the post's moment with the lever taken to the top of the post
PostMomentAtTop(F_w_post, post_height) ==
    IF F_w_post > 0 THEN Mul(F_w_post, post_height) ELSE 0

\* line 136: M_post (kNm)
PostMoment(F_w_post, post_height) ==
    IF F_w_post > 0 THEN Mul(F_w_post, post_height \div 2) ELSE 0

\* lines 132-209: moments, checks and the results dictionary (force_N is
\* held in fixed point like force_kN)
PostChecks ==
    /\ engine = "post" /\ pc = "checks"
    /\ \E inputs \in {frame.inputs} :
         \E F_w_sign \in {frame.F_w_sign} :
         \E F_w_post \in {frame.F_w_post} :
         \E F_w_total \in {F_w_sign + F_w_post} :
         \E M_sign \in {Mul(F_w_sign, ZCentroid(inputs))} :
         \E M_post \in {PostMoment(F_w_post, PostHeight(inputs))} :
         \E M_total \in {M_sign + M_post} :
         \E post_check \in {PostCheck(inputs, M_total, F_w_total)} :
         \E foundation_check \in {FoundationCheck(inputs, M_total, F_w_total)} :
           IF post_check # NoCheck /\ post_check.raised
           THEN last' = [op |-> "calculate_wind_loading", status |-> "raised",
                         id |-> frame.id, inputs |-> inputs,
                         error |-> "ZeroDivisionError", at |-> "post_check"]
           ELSE last' = [op |-> "calculate_wind_loading", status |-> "ok",
                         id |-> frame.id, inputs |-> inputs,
                         result |-> [q_p |-> frame.base.q_p,
                                     c_s |-> frame.base.c_s,
                                     c_d |-> frame.base.c_d,
                                     c_f |-> frame.c_f,
                                     A_ref |-> Mul(inputs.sign_width,
                                                   inputs.sign_height),
                                     z_centroid |-> ZCentroid(inputs),
                                     F_w_sign |-> F_w_sign,
                                     F_w_post |-> F_w_post,
                                     force_N |-> F_w_total * 1000,
                                     force_kN |-> F_w_total,
                                     M_sign |-> M_sign, M_post |-> M_post,
                                     M_total |-> M_total,
                                     moment_kNm |-> M_total,
                                     post_check |-> post_check,
                                     foundation_check |-> foundation_check,
                                     overall_pass |->
                                         ChecksPass(post_check,
                                                    foundation_check),
                                     overall_status |->
                                         IF ChecksPass(post_check,
                                                       foundation_check)
                                         THEN "ADEQUATE"
                                         ELSE "REQUIRES REVIEW"],
                         warnings |-> self_warnings,
                         appended |-> frame.appended]
    /\ heap' = Appended(heap, self_warnings, <<>>, frame.id,
                        {self_warnings} \cup HeldLive(held))
    /\ frame' = NoFrame
    /\ pc' = "idle"
    /\ UNCHANGED <<engine, self_warnings, held, nops, tvars>>

\* calculate_force_coefficient_freestanding(height, depth, width), called
\* directly
PostForceCoefficientFreestanding(height, depth, width) ==
    /\ Idle("post")
    /\ Finish(self_warnings, FreestandingWarnings(height, depth, width),
              [op |-> "calculate_force_coefficient_freestanding",
               status |-> "ok", id |-> nops + 1, height |-> height,
               depth |-> depth, width |-> width,
               value |-> ForceCoefficientFreestanding(height, depth, width),
               appended |-> FreestandingWarnings(height, depth, width)])

\* <<M, F, size_out, t, f_y, section_type, material>>
StressInputs ==
    {<<M, 50000, D, t, 275, s, m>>
        : M \in {50000, 300000}, D \in {0, 150}, t \in {0, 8},
          s \in {"circular", "square"}, m \in {"steel", "aluminium", "timber"}}
    \cup {<<120318, 50000, 150, 8, 100, "circular", "steel">>,
          <<120319, 50000, 150, 8, 100, "circular", "steel">>,
          <<50000, 50000, 150, 8, 275, "hexagonal", "bamboo">>}
    \cup {<<50000, 50000, D, 0, 24, s, "timber">>
             : D \in {1, 100, 120}, s \in {"circular", "square"}}

\* calculate_post_stresses(M, F, size_out, t, f_y, section_type, material),
\* called directly
PostCalculatePostStresses(a) ==
    /\ Idle("post")
    /\ \E r \in {PostStresses(a[1], a[2], a[3], a[4], a[5], a[6], a[7])} :
           Finish(self_warnings, <<>>,
                  IF r.raised
                  THEN [op |-> "calculate_post_stresses", status |-> "raised",
                        id |-> nops + 1, args |-> a,
                        error |-> "ZeroDivisionError"]
                  ELSE [op |-> "calculate_post_stresses", status |-> "ok",
                        id |-> nops + 1, args |-> a, result |-> r])

\* <<M, F>> in kNm and kN; np.sqrt(M / 50) of a negative M is nan, no error
FoundationLoads == {<<0 - 50000, 0>>, <<50000, 50000>>, <<Fix(500), 50000>>}

\* embedment depths (m) around the 1.0 m and 1.5 m limits
Embedments == {0, 9999, 10000, 14999, 15000, Fix(3)}

\* calculate_foundation_requirements(M, F, embedment, foundation_type),
\* called directly
PostCalculateFoundationRequirements(M, F, embedment, foundation_type) ==
    /\ Idle("post")
    /\ Finish(self_warnings, <<>>,
              [op |-> "calculate_foundation_requirements", status |-> "ok",
               id |-> nops + 1, M |-> M, F |-> F, embedment |-> embedment,
               foundation_type |-> foundation_type,
               result |-> [status |-> FoundationStatus(M, F, embedment,
                                                       foundation_type)]])

(***************************************************************************)
(* Operations on a ProjectingSignCalculator instance                       *)
(***************************************************************************)

\* calculate_wind_loading, Stages 1-2: the wind at the sign's height
ProjectingWind(inputs) ==
    [v_b |-> BasicWindVelocity(inputs.v_b_0, inputs.c_dir, inputs.c_season),
     z_eff |-> Max(inputs.mounting_height, TerrainParams(inputs.terrain_category)[2]),
     c_r |-> RoughnessFactor(
                Max(inputs.mounting_height, TerrainParams(inputs.terrain_category)[2]),
                TerrainParams(inputs.terrain_category)[1],
                TerrainParams(inputs.terrain_category)[3]),
     I_v |-> TurbulenceIntensity(
                Max(inputs.mounting_height, TerrainParams(inputs.terrain_category)[2]),
                TerrainParams(inputs.terrain_category)[1])]

\* calculate_wind_loading, Stages 3-4: the forces for the pressure q_p
ProjectingForces(inputs, q_p) ==
    [q_p |-> q_p, c_f |-> Fix(2),
     F_w_k |-> Mul(Mul(Fix(2), q_p), Mul(inputs.sign_width, inputs.sign_height)),
     F_w_Ed |-> Mul(15000, Mul(Mul(Fix(2), q_p),
                               Mul(inputs.sign_width, inputs.sign_height))),
     G_Ed |-> Mul(13500, inputs.sign_weight)]

\* calculate_wind_loading: the results dictionary
ProjectingResult(inputs, w, f, bf, anchor_check, bracket_check, deflection_check) ==
    [raised |-> FALSE, msgs |-> BracketForcesWarnings(inputs.n_brackets),
     v_b |-> w.v_b, z_eff |-> w.z_eff, c_r |-> w.c_r, I_v |-> w.I_v,
     v_m |-> Mul(w.c_r, w.v_b), q_p |-> f.q_p, c_f |-> f.c_f,
     F_w_k |-> f.F_w_k, F_w_Ed |-> f.F_w_Ed, G_Ed |-> f.G_Ed,
     bracket_forces |-> bf, anchor_check |-> anchor_check,
     bracket_check |-> bracket_check, deflection_check |-> deflection_check,
     overall_pass |-> /\ anchor_check.eta_combined <= SCALE
                      /\ bracket_check.eta_bending <= SCALE
                      /\ bracket_check.eta_shear <= SCALE
                      /\ deflection_check.eta_deflection <= SCALE,
     overall_status |-> IF /\ anchor_check.eta_combined <= SCALE
                           /\ bracket_check.eta_bending <= SCALE
                           /\ bracket_check.eta_shear <= SCALE
                           /\ deflection_check.eta_deflection <= SCALE
                        THEN "ADEQUATE" ELSE "INADEQUATE"]

\* calculate_wind_loading, Stage 8: the deflection check
ProjectingDeflection(inputs, w, f, bf, anchor_check, bracket_check) ==
    ProjectingResult(inputs, w, f, bf, anchor_check, bracket_check,
                     Deflection(f.F_w_k, inputs.n_brackets, inputs.projection,
                                210000, bracket_check.I))

\* calculate_wind_loading, Stages 6-7: the anchor and bracket checks
ProjectingChecks(inputs, w, f, bf) ==
    IF AnchorRaises(inputs.n_fixings_per_bracket, inputs.anchor_gamma_M)
    THEN [raised |-> TRUE, msgs |-> BracketForcesWarnings(inputs.n_brackets),
          at |-> "anchor_check"]
    ELSE IF BracketStressesRaises(inputs.bracket_depth)
    THEN [raised |-> TRUE, msgs |-> BracketForcesWarnings(inputs.n_brackets),
          at |-> "bracket_check"]
    ELSE ProjectingDeflection(inputs, w, f, bf,
            AnchorUtilization(bf.V_per_bracket, bf.M_per_bracket, bf.N_vertical,
                              inputs.n_fixings_per_bracket,
                              inputs.fixing_pitch_vertical,
                              inputs.anchor_tension_capacity,
                              inputs.anchor_shear_capacity,
                              inputs.anchor_gamma_M),
            BracketStresses(bf.V_per_bracket, inputs.projection,
                            inputs.bracket_width, inputs.bracket_depth,
                            inputs.bracket_thickness,
                            inputs.bracket_steel_grade))

\* calculate_wind_loading, Stage 5: the bracket forces
ProjectingBrackets(inputs, w, f) ==
    IF BracketForcesRaises(inputs.n_brackets, inputs.bracket_spacing)
    THEN [raised |-> TRUE, msgs |-> <<>>, at |-> "bracket_forces"]
    ELSE ProjectingChecks(inputs, w, f,
            BracketForces(f.F_w_Ed, inputs.projection, inputs.n_brackets,
                          inputs.bracket_spacing, f.G_Ed))

\* calculate_wind_loading from Stage 3 on
ProjectingStages(inputs, w) ==
    ProjectingBrackets(inputs, w,
        ProjectingForces(inputs, PeakPressure(Mul(w.c_r, w.v_b), w.I_v)))

\* ProjectingSignCalculator.calculate_wind_loading after its reset: whether
\* it raises (ZeroDivisionError), the warnings it appends, and the result
ProjectingPipeline(inputs) == ProjectingStages(inputs, ProjectingWind(inputs))

\* the worked example of test_projecting_sign
ProjectingExample ==
    [sign_width |-> 20000, sign_height |-> 15000, projection |-> 6000,
     mounting_height |-> 45000, terrain_category |-> "III", v_b_0 |-> 225000,
     c_dir |-> SCALE, c_season |-> SCALE, sign_weight |-> 1500,
     n_brackets |-> 2, bracket_spacing |-> 12000,
     n_fixings_per_bracket |-> 4, fixing_pitch_vertical |-> 1500,
     anchor_tension_capacity |-> 120000, anchor_shear_capacity |-> 80000,
     anchor_gamma_M |-> 15000, bracket_width |-> 80, bracket_depth |-> 60,
     bracket_thickness |-> 5, bracket_steel_grade |-> 275]

ProjectingInputs ==
    {ProjectingExample}
    \cup {[ProjectingExample EXCEPT !.n_brackets = n, !.bracket_spacing = 0]
            : n \in {1, 2}}
    \cup {[ProjectingExample EXCEPT !.n_brackets = n, !.n_fixings_per_bracket = f]
            : n \in 0..3, f \in {0, 2, 4}}
    \cup {[ProjectingExample EXCEPT !.anchor_gamma_M = g,
                                    !.anchor_tension_capacity = N,
                                    !.anchor_shear_capacity = V]
            : g \in {0, 15000}, N \in {0, 30000, 120000}, V \in {0, 9511, 80000}}
    \cup {[ProjectingExample EXCEPT !.bracket_depth = h, !.bracket_thickness = t,
                                    !.bracket_steel_grade = f]
            : h \in {0, 20, 60}, t \in {0, 5}, f \in {0, 275}}
    \cup {[ProjectingExample EXCEPT !.terrain_category = c, !.mounting_height = z,
                                    !.projection = e]
            : c \in TerrainCategories, z \in {SCALE, 45000},
              e \in {0, 6000, 12000}}

\* what calculate_wind_loading computes for each of the inputs above
ProjectingResults == [inputs \in ProjectingInputs |-> ProjectingPipeline(inputs)]

\* calculate_wind_loading(inputs)
ProjectingCalculateWindLoading(inputs) ==
    /\ Idle("projecting")
    /\ \E r \in {ProjectingResults[inputs]} :
         \E lst \in {ResetWarnings(self_warnings, <<nops + 1, 1>>)} :
           Finish(lst, r.msgs,
                  IF r.raised
                  THEN [op |-> "calculate_wind_loading", status |-> "raised",
                        id |-> nops + 1, inputs |-> inputs,
                        error |-> "ZeroDivisionError", at |-> r.at]
                  ELSE [op |-> "calculate_wind_loading", status |-> "ok",
                        id |-> nops + 1, inputs |-> inputs, result |-> r,
                        warnings |-> lst])

\* <<V_per_bracket, M_per_bracket, N_vertical, n_fix, p_v, N_Rk, V_Rk, gamma_M>>
AnchorInputs ==
    {<<19013, 11407, 1012, n, 1500, 30000, 7130, g>>
        : n \in {0, 2, 4}, g \in {0, 15000}}
    \cup {<<19013, 11407, 1012, 2, 1500, N, V, 15000>>
            : N \in {0, 30000, 120000}, V \in {0, 7129, 7130, 80000}}

\* calculate_anchor_utilization(...), called directly
ProjectingCalculateAnchorUtilization(a) ==
    /\ Idle("projecting")
    /\ Finish(self_warnings, <<>>,
              IF AnchorRaises(a[4], a[8])
              THEN [op |-> "calculate_anchor_utilization", status |-> "raised",
                    id |-> nops + 1, args |-> a, error |-> "ZeroDivisionError"]
              ELSE [op |-> "calculate_anchor_utilization", status |-> "ok",
                    id |-> nops + 1, args |-> a,
                    result |-> AnchorUtilization(a[1], a[2], a[3], a[4], a[5],
                                                 a[6], a[7], a[8])])

\* <<V_per_bracket, L, b_out, h_out, t, f_y>>
BracketInputs ==
    {<<19013, L, 80, h, 5, 275>> : L \in {0, 6000, 12000}, h \in {0, 20, 60}}
    \cup {<<19013, 6000, 80, h, t, f>>
            : h \in {20, 60}, t \in {0, 5}, f \in {0, 40, 275}}

\* calculate_bracket_stresses(V_per_bracket, L, section, f_y), called directly
ProjectingCalculateBracketStresses(a) ==
    /\ Idle("projecting")
    /\ Finish(self_warnings, <<>>,
              IF BracketStressesRaises(a[4])
              THEN [op |-> "calculate_bracket_stresses", status |-> "raised",
                    id |-> nops + 1, args |-> a, error |-> "ZeroDivisionError"]
              ELSE [op |-> "calculate_bracket_stresses", status |-> "ok",
                    id |-> nops + 1, args |-> a,
                    result |-> BracketStresses(a[1], a[2], a[3], a[4], a[5],
                                               a[6])])

\* calculate_deflection: F_w_k / n_brackets and the division by 3 * E * I
\* (taken when I > 0) are Python float divisions
DeflectionRaises(n_brackets, E, I) == n_brackets = 0 \/ (I > 0 /\ E = 0)

\* <<F_w_k, n_brackets, L, E, I>>
DeflectionInputs ==
    {<<25350, n, 6000, E, I>>
        : n \in {0, 1, 2}, E \in {0, 210000}, I \in {0, 50000, 710833}}
    \cup {<<25350, 2, L, 210000, I>>
            : L \in {0, 6000, 12000}, I \in {0, 50000, 710833}}

\* calculate_deflection(F_w_k, n_brackets, L, E, I), called directly
ProjectingCalculateDeflection(a) ==
    /\ Idle("projecting")
    /\ Finish(self_warnings, <<>>,
              IF DeflectionRaises(a[2], a[4], a[5])
              THEN [op |-> "calculate_deflection", status |-> "raised",
                    id |-> nops + 1, args |-> a, error |-> "ZeroDivisionError"]
              ELSE [op |-> "calculate_deflection", status |-> "ok",
                    id |-> nops + 1, args |-> a,
                    result |-> Deflection(a[1], a[2], a[3], a[4], a[5])])

\* calculate_bracket_forces(F_w_Ed, e, n_brackets, s, G_Ed), called directly
ProjectingCalculateBracketForces(n_brackets, s) ==
    /\ Idle("projecting")
    /\ IF BracketForcesRaises(n_brackets, s)
       THEN Finish(self_warnings, <<>>,
                   [op |-> "calculate_bracket_forces", status |-> "raised",
                    id |-> nops + 1, n_brackets |-> n_brackets, s |-> s,
                    error |-> "ZeroDivisionError"])
       ELSE Finish(self_warnings, BracketForcesWarnings(n_brackets),
                   [op |-> "calculate_bracket_forces", status |-> "ok",
                    id |-> nops + 1, n_brackets |-> n_brackets, s |-> s,
                    result |-> BracketForces(38025, 6000, n_brackets, s, 2025),
                    appended |-> BracketForcesWarnings(n_brackets)])

(***************************************************************************)
(* Operations on a SignConstructionCalculator instance                     *)
(***************************************************************************)
PanelKeys == PanelMaterials \cup {"ACM_3MM", "bamboo", Missing}

\* calculate_panel_adequacy(inputs)
PanelCalculatePanelAdequacy(panel_material, channel_spacing, wind_pressure) ==
    /\ Idle("panel")
    /\ LET lst == ResetWarnings(self_warnings, <<nops + 1, 1>>)
           material_key == GetStr(panel_material, "acm_3mm")
           inputs == [panel_material |-> panel_material,
                      channel_spacing |-> channel_spacing,
                      wind_pressure |-> wind_pressure]
       IN  Finish(lst, <<>>,
                  IF PanelUnknownMaterial(material_key)
                  THEN [op |-> "calculate_panel_adequacy", status |-> "raised",
                        id |-> nops + 1, inputs |-> inputs,
                        error |-> "ValueError", names |-> material_key]
                  ELSE IF PanelDivisionRaises(channel_spacing)
                  THEN [op |-> "calculate_panel_adequacy", status |-> "raised",
                        id |-> nops + 1, inputs |-> inputs,
                        error |-> "ZeroDivisionError"]
                  ELSE [op |-> "calculate_panel_adequacy", status |-> "ok",
                        id |-> nops + 1, inputs |-> inputs,
                        result |-> PanelAdequacy(material_key, channel_spacing,
                                                 wind_pressure),
                        warnings |-> lst])

\* _calculate_num_channels(sign_height, spacing), called directly
PanelCalculateNumChannels(sign_height, spacing) ==
    /\ Idle("panel")
    /\ Finish(self_warnings, <<>>,
              IF spacing = 0
              THEN [op |-> "_calculate_num_channels", status |-> "raised",
                    id |-> nops + 1, sign_height |-> sign_height,
                    spacing |-> spacing, error |-> "ZeroDivisionError"]
              ELSE [op |-> "_calculate_num_channels", status |-> "ok",
                    id |-> nops + 1, sign_height |-> sign_height,
                    spacing |-> spacing,
                    value |-> NumChannels(sign_height, spacing)])

\* quality_targets.get(target_quality, 400) (mm)
TargetSpacing(target_quality) ==
    CASE target_quality = "highway" -> 300
      [] target_quality = "professional" -> 400
      [] target_quality = "budget" -> 600
      [] OTHER -> 400

\* recommend_channel_spacing(inputs): calculate_panel_adequacy at the
\* target spacing, and its max_spacing_recommended where that is inadequate
PanelRecommendChannelSpacing(panel_material, wind_pressure, target_quality) ==
    /\ Idle("panel")
    /\ \E lst \in {ResetWarnings(self_warnings, <<nops + 1, 1>>)} :
       \E material_key \in {GetStr(panel_material, "acm_3mm")} :
       \E inputs \in {[panel_material |-> panel_material,
                        wind_pressure |-> wind_pressure,
                        target_quality |-> target_quality]} :
         IF PanelUnknownMaterial(material_key)
         THEN Finish(lst, <<>>,
                     [op |-> "recommend_channel_spacing", status |-> "raised",
                      id |-> nops + 1, inputs |-> inputs,
                      error |-> "ValueError", names |-> material_key])
         ELSE \E r \in {PanelAdequacy(material_key,
                                      TargetSpacing(target_quality),
                                      wind_pressure)} :
                Finish(lst, <<>>,
                       [op |-> "recommend_channel_spacing", status |-> "ok",
                        id |-> nops + 1, inputs |-> inputs,
                        result |->
                            IF r.overall_status = "ADEQUATE"
                            THEN [recommended_spacing |->
                                      TargetSpacing(target_quality),
                                  status |-> "ADEQUATE",
                                  quality |-> target_quality]
                            ELSE [recommended_spacing |->
                                      r.max_spacing_recommended,
                                  status |-> "REQUIRES_CLOSER_SPACING",
                                  quality |-> "custom"]])

Next ==
    \/ \E a \in AssessInputs : WallAssessAdequacy(a)
    \/ \E h \in {Fix(10), Fix(15), Fix(15) + 1, Fix(30)}, w \in DynamicWidths :
            WallCalculateDynamicFactor(h, w)
    \/ \E w \in SizeWidths, z \in SizeHeights, zone \in {"A", "B", "C"} :
            WallCalculateSizeFactor(w, Fix(2), z, zone)
    \/ \E inputs \in WallInputs : WallCalculateWindLoading(inputs)
    \/ \E postcode \in Postcodes : WallLookupWindSpeed(postcode)
    \/ \E p \in RatioPairs : WallCalculateForceCoefficient(p[1], p[2])
    \/ \E d \in ShoreDistances, k \in TerrainTypes, h \in {Fix(6), Fix(27)} :
            WallCalculateExposureFactor(h, d, k)
    \/ \E d \in TownDistances, h \in {Fix(6), Fix(20)} :
            WallCalculateTownCorrection(d, h)
    \/ \E inputs \in PostInputs : PostBegin(inputs)
    \/ PostBase
    \/ PostCf
    \/ PostForce
    \/ PostChecks
    \/ \E p \in RatioPairs : PostForceCoefficientFreestanding(p[1], p[2], Fix(3))
    \/ \E a \in StressInputs : PostCalculatePostStresses(a)
    \/ \E l \in FoundationLoads, e \in Embedments,
          f \in {"concrete", "steel_base"} :
            PostCalculateFoundationRequirements(l[1], l[2], e, f)
    \/ \E inputs \in ProjectingInputs : ProjectingCalculateWindLoading(inputs)
    \/ \E a \in AnchorInputs : ProjectingCalculateAnchorUtilization(a)
    \/ \E a \in BracketInputs : ProjectingCalculateBracketStresses(a)
    \/ \E a \in DeflectionInputs : ProjectingCalculateDeflection(a)
    \/ \E n \in 0..3, s \in {0, 6000, 12000} :
            ProjectingCalculateBracketForces(n, s)
    \/ \E k \in PanelKeys, L \in {0, 300, 400, 457, 458, 600, 900},
          q \in {0, Fix(500), 8280000, Fix(1500)} :
            PanelCalculatePanelAdequacy(k, L, q)
    \/ \E k \in PanelKeys, q \in {Fix(500), 8280000, Fix(1500)},
          t \in {"highway", "professional", "budget", "amateur"} :
            PanelRecommendChannelSpacing(k, q, t)
    \/ \E h \in {0, 1, 399, 400, 401, 2000}, L \in {0, 1, 400, 3000} :
            PanelCalculateNumChannels(h, L)

Spec == Init /\ [][Next]_vars

(***************************************************************************)
(* Two requests served at once (api.py serves every request from the       *)
(* module-level instances).  WindLoadCalculator.calculate_wind_loading is  *)
(* followed through the statements that touch self.warnings; a request     *)
(* runs on the shared instance, or on an instance of its own.              *)
(***************************************************************************)
Threads == {1, 2}

\* the instance request t runs on: the module-level one (0), or its own
InstanceOfShared(t, shared) == 0

InstanceOf(t, shared) == IF shared THEN 0 ELSE t

NoList == <<Absent, 0>>

ThreadInputs ==
    {WallBase,
     [WallBase EXCEPT !.v_map = 0, !.postcode = <<>>, !.sign_depth = 2000],
     [WallBase EXCEPT !.v_map = 0, !.postcode = <<"X", "X", "1">>],
     [WallBase EXCEPT !.sign_depth = 0]}

ThreadInit ==
    /\ engine = "wall"
    /\ heap = [i \in {<<0, 0>>} |-> <<>>]
    /\ self_warnings = <<0, 0>>
    /\ last = NoResult
    /\ held = NoHeld
    /\ pc = "idle"
    /\ frame = NoFrame
    /\ nops = 0
    /\ \E shared \in BOOLEAN, i1 \in ThreadInputs, i2 \in ThreadInputs :
         /\ calls = [t \in Threads |->
                        [pc |-> "reset", inputs |-> IF t = 1 THEN i1 ELSE i2,
                         shared |-> shared,
                         instance |-> InstanceOf(t, shared),
                         warnings |-> NoList]]
         /\ instances = [i \in {InstanceOf(t, shared) : t \in Threads} |-> <<i, 0>>]
         /\ lists = [l \in {<<InstanceOf(t, shared), 0>> : t \in Threads} |-> <<>>]

\* request t moves on to position next
Goto(t, next) == calls' = [calls EXCEPT ![t].pc = next]

\* self.warnings.append(...) by request t, for each of msgs
ThreadAppend(t, msgs) ==
    lists' = [lists EXCEPT ![instances[calls[t].instance]] = @ \o Tag(msgs, t)]

\* line 49: self.warnings = []
ThreadReset(t) ==
    /\ calls[t].pc = "reset"
    /\ \E lst \in {ResetWarnings(instances[calls[t].instance], <<t, 1>>)} :
         /\ instances' = [instances EXCEPT ![calls[t].instance] = lst]
         /\ lists' = [l \in DOMAIN lists \cup {lst} |->
                         IF l \in DOMAIN lists THEN lists[l] ELSE <<>>]
    /\ Goto(t, "lookup")
    /\ UNCHANGED svars

\* lines 63-66: v_map = self.lookup_wind_speed(...) when no v_map is given
ThreadLookup(t) ==
    /\ calls[t].pc = "lookup"
    /\ ThreadAppend(t, IF calls[t].inputs.v_map = 0
                       THEN LookupWarnings(calls[t].inputs.postcode) ELSE <<>>)
    /\ Goto(t, "directional")
    /\ UNCHANGED <<svars, instances>>

\* line 85
ThreadDirectional(t) ==
    /\ calls[t].pc = "directional"
    /\ ThreadAppend(t, <<"non_directional">>)
    /\ Goto(t, "orography")
    /\ UNCHANGED <<svars, instances>>

\* line 124
ThreadOrography(t) ==
    /\ calls[t].pc = "orography"
    /\ ThreadAppend(t, <<"orography">>)
    /\ Goto(t, "force_coefficient")
    /\ UNCHANGED <<svars, instances>>

\* line 144: c_f = self.calculate_force_coefficient(sign_height, sign_depth)
ThreadForceCoefficient(t) ==
    /\ calls[t].pc = "force_coefficient"
    /\ IF ForceCoefficientRaises(calls[t].inputs.sign_height,
                                 calls[t].inputs.sign_depth)
       THEN /\ Goto(t, "raised")
            /\ UNCHANGED lists
       ELSE /\ ThreadAppend(t, ForceCoefficientWarnings(
                                   calls[t].inputs.sign_height,
                                   calls[t].inputs.sign_depth))
            /\ Goto(t, "return")
    /\ UNCHANGED <<svars, instances>>

\* lines 166-177: results['warnings'] = self.warnings; return results
ThreadReturn(t) ==
    /\ calls[t].pc = "return"
    /\ calls' = [calls EXCEPT ![t].pc = "done",
                              ![t].warnings = instances[calls[t].instance]]
    /\ UNCHANGED <<svars, instances, lists>>

ThreadNext ==
    \/ \E t \in Threads : ThreadReset(t)
    \/ \E t \in Threads : ThreadLookup(t)
    \/ \E t \in Threads : ThreadDirectional(t)
    \/ \E t \in Threads : ThreadOrography(t)
    \/ \E t \in Threads : ThreadForceCoefficient(t)
    \/ \E t \in Threads : ThreadReturn(t)

ThreadSpec == ThreadInit /\ [][ThreadNext]_vars


(***************************************************************************)
(* Properties                                                              *)
(***************************************************************************)

\* C1: the warnings list a wall-mounted calculate_wind_loading returns holds
\* exactly the warnings of that call, in order, and none left by an earlier
\* call or by a direct lookup_wind_speed / calculate_force_coefficient.
C1_WallWarningsOfThisCall ==
    (engine = "wall" /\ last.op = "calculate_wind_loading" /\ last.status = "ok")
        => /\ heap[last.warnings] = Tag(WallPipeline(last.inputs).msgs, last.id)
           /\ \A i \in 1..Len(heap[last.warnings]) :
                  heap[last.warnings][i].op = last.id

\* a wall-mounted call that returned its warnings after two earlier operations
C1_Witness ==
    /\ engine = "wall" /\ last.op = "calculate_wind_loading"
    /\ last.status = "ok" /\ last.id = 3
    /\ "h_over_d_gt_5" \in Msgs(heap[last.warnings])
    /\ "no_postcode" \in Msgs(heap[last.warnings])

\* C2: while PostMountedCalculator.calculate_wind_loading runs, the warning
\* log only grows (what it held stays, in order, at its front), and every
\* warning the call appended is in the warnings it returns.
C2_WarningLogOnlyGrows ==
    [][(engine = "post" /\ pc # "idle") =>
          LET before == heap[self_warnings]
              after == heap'[self_warnings']
          IN  /\ Len(before) <= Len(after)
              /\ SubSeq(after, 1, Len(before)) = before
              /\ (pc' = "idle" /\ last'.status = "ok") =>
                    \A i \in 1..Len(last'.appended) :
                        last'.appended[i] \in Msgs(heap'[last'.warnings])]_vars

\* C3: a categorical key outside the recognized set aborts the call with an
\* error naming the key: panel_material outside MATERIALS, post_material
\* outside steel / aluminium / timber, post_section_type outside
\* circular / square.
C3_UnknownKeyRaises ==
    /\ (last.op = "calculate_panel_adequacy"
          /\ GetStr(last.inputs.panel_material, "acm_3mm") \notin PanelMaterials)
        => /\ last.status = "raised" /\ last.error = "ValueError"
           /\ last.names = GetStr(last.inputs.panel_material, "acm_3mm")
    /\ (engine = "post" /\ last.op = "calculate_wind_loading"
          /\ last.status \in {"ok", "raised"}
          /\ \/ GetStr(last.inputs.post_material, "steel")
                    \notin {"steel", "aluminium", "timber"}
             \/ GetStr(last.inputs.post_section_type, "circular")
                    \notin {"circular", "square"})
        => last.status = "raised" /\ last.error = "ValueError"
    /\ (last.op = "calculate_post_stresses"
          /\ \/ last.args[7] \notin {"steel", "aluminium", "timber"}
             \/ last.args[6] \notin {"circular", "square"})
        => last.status = "raised" /\ last.error = "ValueError"

\* C4: a post-mounted calculate_wind_loading with sign_depth = 0 does not
\* raise: h/d is taken as 999 and a result carrying c_f is returned.
C4_ZeroDepthReturns ==
    (engine = "post" /\ last.op = "calculate_wind_loading"
       /\ last.status \in {"ok", "raised"} /\ last.inputs.sign_depth = 0)
        => /\ last.status = "ok"
           /\ last.result.c_f = ForceCoefficientFreestanding(
                                    last.inputs.sign_height, 0,
                                    last.inputs.sign_width)

\* C5: the structural checks (post stresses, bracket stresses, anchor
\* utilization, deflection) never raise on a zero denominator: a zero section
\* property or capacity gives a record whose status is FAIL.
C5_ChecksNeverRaise ==
    /\ last.op \in {"calculate_post_stresses", "calculate_bracket_stresses",
                    "calculate_anchor_utilization", "calculate_deflection"}
        => last.status = "ok"
    /\ (last.op = "calculate_post_stresses" /\ last.args[3] = 0)
        => last.status = "ok" /\ last.result.bending_status = "FAIL"
    /\ (last.op = "calculate_bracket_stresses" /\ last.args[4] = 0)
        => last.status = "ok" /\ last.result.bending_status = "FAIL"
    /\ (last.op = "calculate_anchor_utilization" /\ last.args[4] = 0)
        => last.status = "ok" /\ last.result.combined_status = "FAIL"
    /\ (last.op = "calculate_wind_loading" /\ last.status = "raised"
          /\ engine \in {"post", "projecting"})
        => last.at \notin {"post_check", "anchor_check", "bracket_check"}

\* C6: in every utilization record the status is PASS exactly when the
\* reported utilization is at most 1.0: anchor tension, shear and combined,
\* bracket bending and shear, deflection, post bending and shear, panel
\* deflection and stress.
C6_StatusMatchesUtilization ==
    LET Agree(status, eta) == (status = "PASS") <=> (eta <= SCALE)
        Post(r) == /\ Agree(r.bending_status, r.eta_bending)
                   /\ Agree(r.shear_status, r.eta_shear)
        Anchor(r) == /\ Agree(r.tension_status, r.eta_tension)
                     /\ Agree(r.shear_status, r.eta_shear)
                     /\ Agree(r.combined_status, r.eta_combined)
        Defl(r) == Agree(r.deflection_status, r.eta_deflection)
        Panel(r) == /\ Agree(r.deflection.status, r.deflection.utilization)
                    /\ Agree(r.stress.status, r.stress.utilization)
    IN  last.status = "ok" =>
          /\ last.op = "calculate_post_stresses" => Post(last.result)
          /\ last.op = "calculate_bracket_stresses" => Post(last.result)
          /\ last.op = "calculate_anchor_utilization" => Anchor(last.result)
          /\ last.op = "calculate_deflection" => Defl(last.result)
          /\ last.op = "calculate_panel_adequacy" => Panel(last.result)
          /\ (last.op = "calculate_wind_loading" /\ engine = "post"
                /\ last.result.post_check # NoCheck)
              => Post(last.result.post_check)
          /\ (last.op = "calculate_wind_loading" /\ engine = "projecting")
              => /\ Anchor(last.result.anchor_check)
                 /\ Post(last.result.bracket_check)
                 /\ Defl(last.result.deflection_check)

\* a post stress record whose bending utilization is exactly 1.0
C6_Witness ==
    /\ last.op = "calculate_post_stresses" /\ last.status = "ok"
    /\ last.result.eta_bending = SCALE
    /\ last.result.bending_status = "PASS"
    /\ last.result.shear_status = "PASS"

\* C7: for every height and every depth > 0 the free-standing coefficient is
\* 1.1 times what calculate_force_coefficient returns, in every branch, the
\* one for h/d > 5 included.
C7_FreestandingIsElevenTenths ==
    (last.op = "calculate_force_coefficient_freestanding" /\ last.depth > 0)
        => last.value = Mul(ForceCoefficient(last.height, last.depth), 11000)

\* C8: c_f is continuous across h/d = 0.25, 1 and 5 (a step of 0.0001 in h/d
\* moves it by less than 0.001) and never decreases as h/d increases, for
\* calculate_force_coefficient and for calculate_force_coefficient_freestanding.
C8_ContinuousAndMonotone ==
    LET Near(a, b) == a - b < 10 /\ b - a < 10
        Lower(h, d) == {p \in RatioPairs : p[2] = d /\ p[1] <= h}
    IN  /\ (last.op = "calculate_force_coefficient" /\ last.status = "ok")
            => \A p \in Lower(last.height, last.depth) :
                  /\ ForceCoefficient(p[1], p[2]) <= last.value
                  /\ p[1] = last.height - 1
                        => Near(ForceCoefficient(p[1], p[2]), last.value)
        /\ (last.op = "calculate_force_coefficient_freestanding"
              /\ last.depth > 0)
            => \A p \in Lower(last.height, last.depth) :
                  /\ ForceCoefficientFreestanding(p[1], p[2], last.width)
                        <= last.value
                  /\ p[1] = last.height - 1
                        => Near(ForceCoefficientFreestanding(p[1], p[2],
                                                             last.width),
                                last.value)

\* C9: calculate_force_coefficient with h/d > 5 does not fail, returns the
\* value it returns for h/d = 5 and appends exactly one warning; with
\* h/d <= 5 it appends none.
C9_ClampAboveFive ==
    (last.op = "calculate_force_coefficient" /\ last.depth > 0)
        => LET log == heap[self_warnings]
               mine == {i \in 1..Len(log) : log[i].op = last.id}
           IN  /\ last.status = "ok"
               /\ IF Div(last.height, last.depth) > Fix(5)
                  THEN /\ last.value = ForceCoefficientFormula(Fix(5))
                       /\ last.value = ForceCoefficient(Fix(5), Fix(1))
                       /\ Cardinality(mine) = 1
                       /\ log[Len(log)] = [op |-> last.id, msg |-> "h_over_d_gt_5"]
                  ELSE mine = {}

\* calculate_force_coefficient called with h/d = 8 after another operation
C9_Witness ==
    /\ last.op = "calculate_force_coefficient" /\ last.status = "ok"
    /\ last.height = Fix(8) /\ last.depth = Fix(1) /\ last.id = 2
    /\ Len(heap[self_warnings]) >= 2

\* C10: the q_p of the projecting engine's result is in Pa: for the worked
\* example q_p is within 5% of 422.8 and F_w_k within 5% of 2.537 kN.
C10_ProjectingExampleInPa ==
    (engine = "projecting" /\ last.op = "calculate_wind_loading"
       /\ last.status = "ok" /\ last.inputs = ProjectingExample)
        => LET Within(x, golden) == /\ (x - golden) * 20 <= golden
                                    /\ (golden - x) * 20 <= golden
           IN  /\ Within(last.result.q_p, 4228000)
               /\ Within(last.result.F_w_k, 25370)

\* C11: a calculate_wind_loading call that follows an earlier one with the
\* same inputs on the same wall-mounted, post-mounted or projecting instance
\* returns the same result in every field and the same warnings, in the same
\* order, whatever the operations before it and between the two did.
C11_SameInputsSameResult ==
    LET MsgSeq(list) == [i \in 1..Len(list) |-> list[i].msg]
    IN  (engine \in {"wall", "post", "projecting"}
           /\ last.op = "calculate_wind_loading" /\ last.status = "ok"
           /\ held.status = "ok" /\ held.result.inputs = last.inputs)
            => /\ last.result = held.result.result
               /\ MsgSeq(heap[last.warnings]) = MsgSeq(held.snapshot)

\* the first and the third operation are wall-mounted calls with the same
\* inputs and warnings, and the operation between them appended to the log
C11_Witness ==
    /\ engine = "wall" /\ last.op = "calculate_wind_loading"
    /\ last.status = "ok" /\ last.id = 3
    /\ held.status = "ok" /\ held.result.id = 1
    /\ held.result.inputs = last.inputs
    /\ Len(heap[held.result.warnings]) > Len(held.snapshot)
    /\ Len(heap[last.warnings]) >= 3

\* C12: the warnings list of a result that calculate_wind_loading returned
\* holds, after every later operation on the instance, what it held when
\* the result was returned.
C12_ReturnedResultNeverChanges ==
    held.status = "ok" => heap[held.result.warnings] = held.snapshot

\* C13: when each of two calculate_wind_loading calls served at once runs on
\* an instance of its own, the warnings list of each result holds exactly the
\* warnings of its own call, in order; on one shared instance a result can
\* lack warnings of its own call and hold warnings of the other call.
C13_OwnInstanceOwnWarnings ==
    \A t \in DOMAIN calls :
        (calls[t].pc = "done" /\ ~calls[t].shared)
            => lists[calls[t].warnings] = Tag(WallPipeline(calls[t].inputs).msgs, t)

\* on the shared instance, the first call's result lacks its own postcode
\* warning and holds a warning the second call appended
C13_Witness ==
    /\ DOMAIN calls = Threads
    /\ calls[1].shared /\ calls[1].instance = calls[2].instance
    /\ calls[1].pc = "done"
    /\ "no_postcode" \in Msgs(Tag(WallPipeline(calls[1].inputs).msgs, 1))
    /\ [op |-> 1, msg |-> "no_postcode"] \notin
            {lists[calls[1].warnings][i] : i \in 1..Len(lists[calls[1].warnings])}
    /\ \E i \in 1..Len(lists[calls[1].warnings]) :
            lists[calls[1].warnings][i].op = 2

\* C14: calculate_exposure_factor returns zone 'A' when terrain_type is 'sea'
\* or distance_to_shore <= 0.1 km (also for terrain_type 'town'), otherwise
\* 'C' when terrain_type is 'town', otherwise 'B' (also for a terrain_type
\* that is none of the three); the zone is always one of 'A', 'B', 'C'.
C14_ZoneSelection ==
    last.op = "calculate_exposure_factor"
        => /\ last.status = "ok"
           /\ last.zone \in {"A", "B", "C"}
           /\ last.zone = "A" <=> (last.terrain_type = "sea"
                                     \/ last.distance_to_shore <= 1000)
           /\ last.zone = "C" <=> (last.terrain_type = "town"
                                     /\ last.distance_to_shore > 1000)

\* a town site exactly 0.1 km from the shore is in zone A
C14_Witness ==
    /\ last.op = "calculate_exposure_factor"
    /\ last.terrain_type = "town" /\ last.distance_to_shore = 1000
    /\ last.zone = "A"

\* C15: calculate_town_correction returns 1.0 for distance <= 0,
\* 1.0 + 0.02 * distance for 0 < distance < 4 and 1.08 for distance >= 4,
\* whatever the height; so c_e_T lies in [1.0, 1.08], does not decrease as
\* the distance grows, and has no jump at 4 km.
C15_TownCorrectionPiecewise ==
    last.op = "calculate_town_correction"
        => LET d == last.distance_into_town
           IN  /\ last.status = "ok"
               /\ d <= 0 => last.value = SCALE
               /\ (0 < d /\ d < Fix(4)) => last.value = SCALE + (2 * d) \div 100
               /\ d >= Fix(4) => last.value = 10800
               /\ SCALE <= last.value /\ last.value <= 10800
               /\ \A e \in TownDistances, h \in {Fix(6), Fix(20)} :
                      e <= d => TownCorrection(e, h) <= last.value
               /\ d = 39999 => 10800 - last.value <= 1

\* the correction just below 4 km, one step under 1.08
C15_Witness ==
    /\ last.op = "calculate_town_correction"
    /\ last.distance_into_town = 39999 /\ last.height = Fix(20)
    /\ last.value = 10799

\* C16: calculate_foundation_requirements returns, for a concrete
\* foundation, INADEQUATE below 1.0 m of embedment, MARGINAL from 1.0 m to
\* below 1.5 m and ADEQUATE from 1.5 m, whatever the moment and the force;
\* for a steel-base foundation it returns REQUIRES DESIGN at every embedment.
C16_FoundationHeuristic ==
    last.op = "calculate_foundation_requirements"
        => /\ last.status = "ok"
           /\ (last.foundation_type = "concrete" /\ last.embedment < SCALE)
                => last.result.status = "INADEQUATE"
           /\ (last.foundation_type = "concrete" /\ SCALE <= last.embedment
                  /\ last.embedment < 15000)
                => last.result.status = "MARGINAL"
           /\ (last.foundation_type = "concrete" /\ last.embedment >= 15000)
                => last.result.status = "ADEQUATE"
           /\ last.foundation_type = "steel_base"
                => last.result.status = "REQUIRES DESIGN"

\* a concrete foundation embedded exactly 1.5 m under a moment of 500 kNm
C16_Witness ==
    /\ last.op = "calculate_foundation_requirements"
    /\ last.foundation_type = "concrete" /\ last.embedment = 15000
    /\ last.M = Fix(500) /\ last.result.status = "ADEQUATE"

\* C17: every post-mounted result has force_kN = F_w_sign + F_w_post,
\* force_N = 1000 * force_kN, M_sign = F_w_sign * z_centroid,
\* M_post = F_w_post * post_height / 2 and moment_kNm = M_total =
\* M_sign + M_post; with post_diameter absent or 0, F_w_post = 0, M_post = 0
\* and the returned warnings say that the post force is neglected.
C17_PostForcesAndMoments ==
    (engine = "post" /\ last.op = "calculate_wind_loading" /\ last.status = "ok")
        => LET r == last.result
               inputs == last.inputs
           IN  /\ r.force_kN = r.F_w_sign + r.F_w_post
               /\ r.force_N = 1000 * r.force_kN
               /\ r.z_centroid = inputs.sign_base_height + inputs.sign_height \div 2
               /\ r.M_sign = Mul(r.F_w_sign, r.z_centroid)
               /\ r.M_post = Mul(r.F_w_post, PostHeight(inputs) \div 2)
               /\ r.M_total = r.M_sign + r.M_post
               /\ r.moment_kNm = r.M_total
               /\ (inputs.post_diameter = Absent \/ inputs.post_diameter = 0)
                    => /\ r.F_w_post = 0 /\ r.M_post = 0
                       /\ "post_neglected" \in Msgs(heap[last.warnings])

\* the result of test_post_mounted: a 150 mm post that takes wind itself
C17_Witness ==
    /\ engine = "post" /\ last.op = "calculate_wind_loading"
    /\ last.status = "ok" /\ last.inputs = PostBaseInputs
    /\ last.result.F_w_post > 0 /\ last.result.M_post > 0
    /\ last.result.moment_kNm > last.result.M_sign

\* C18: lookup_wind_speed never raises: when the alphabetic prefix (the one
\* or two leading letters) of the uppercased, trimmed postcode is in the
\* regional table it returns the table's value, between 21.5 and 27.0, and
\* appends no warning; when the postcode is empty or the prefix is not in
\* the table it returns 22.0 and appends exactly one warning.
C18_LookupDefaultsWithOneWarning ==
    last.op = "lookup_wind_speed"
        => LET u == UpperStrip(last.postcode)
               prefix == IF u = <<>> \/ ~IsAlpha(u[1]) THEN <<>>
                         ELSE IF Len(u) >= 2 /\ IsAlpha(u[2]) THEN <<u[1], u[2]>>
                         ELSE <<u[1]>>
               log == heap[self_warnings]
               mine == {i \in 1..Len(log) : log[i].op = last.id}
           IN  /\ last.status = "ok"
               /\ IF last.postcode # <<>> /\ InWindSpeedMap(prefix)
                  THEN /\ \E e \in WindSpeedMap :
                             e[1] = prefix /\ e[2] = last.value
                       /\ 215000 <= last.value /\ last.value <= 270000
                       /\ mine = {}
                  ELSE /\ last.value = 220000
                       /\ Cardinality(mine) = 1

\* C19: calculate_bracket_forces with one bracket does not divide by
\* bracket_spacing: also for bracket_spacing = 0 it returns N_moment = 0 and
\* N_tension_max = N_vertical and appends exactly one warning; with two or
\* more brackets (and a spacing to divide by) it returns
\* N_moment = M_wall / bracket_spacing and appends no warning.
C19_SingleBracketNoCouple ==
    /\ last.op = "calculate_bracket_forces"
        => LET log == heap[self_warnings]
               mine == {i \in 1..Len(log) : log[i].op = last.id}
           IN  /\ last.n_brackets = 1
                    => /\ last.status = "ok"
                       /\ last.result.N_moment = 0
                       /\ last.result.N_tension_max = last.result.N_vertical
                       /\ Cardinality(mine) = 1
                       /\ log[Len(log)] = [op |-> last.id, msg |-> "single_bracket"]
               /\ (last.n_brackets >= 2 /\ last.s > 0)
                    => /\ last.status = "ok"
                       /\ last.result.N_moment = Div(last.result.M_wall, last.s)
                       /\ mine = {}
    /\ (engine = "projecting" /\ last.op = "calculate_wind_loading"
          /\ last.status = "raised" /\ last.inputs.n_brackets = 1)
        => last.at # "bracket_forces"

\* one bracket with bracket_spacing = 0, after another operation
C19_Witness ==
    /\ last.op = "calculate_bracket_forces" /\ last.status = "ok"
    /\ last.n_brackets = 1 /\ last.s = 0 /\ last.id = 2
    /\ last.result.N_moment = 0 /\ last.result.N_tension_max > 0

\* C20: the spacing the panel checker recommends is an allowable one: when
\* calculate_panel_adequacy reports INADEQUATE, the same material and wind
\* pressure at channel_spacing = max_spacing_recommended pass the deflection
\* and the stress check and are ADEQUATE; so is the recommended_spacing that
\* recommend_channel_spacing returns.
C20_RecommendedSpacingIsAdequate ==
    LET Allowable(key, L, q_p) ==
            /\ PanelAdequacy(key, L, q_p).deflection.status = "PASS"
            /\ PanelAdequacy(key, L, q_p).stress.status = "PASS"
            /\ PanelAdequacy(key, L, q_p).overall_status = "ADEQUATE"
    IN  /\ (last.op = "calculate_panel_adequacy" /\ last.status = "ok"
              /\ last.result.overall_status = "INADEQUATE")
            => Allowable(GetStr(last.inputs.panel_material, "acm_3mm"),
                         last.result.max_spacing_recommended,
                         last.inputs.wind_pressure)
        /\ (last.op = "recommend_channel_spacing" /\ last.status = "ok")
            => Allowable(GetStr(last.inputs.panel_material, "acm_3mm"),
                         last.result.recommended_spacing,
                         last.inputs.wind_pressure)

\* the W_el that calculate_post_stresses computes for a solid circular post
\* of the diameter of the square post of the latest call
C21_CircularModulus ==
    PostStresses(last.args[1], last.args[2], last.args[3], last.args[4],
                 last.args[5], "circular", "timber").W_el

\* the latest call was calculate_post_stresses on a solid square post
C21_SolidSquareChecked ==
    /\ last.op = "calculate_post_stresses" /\ last.status = "ok"
    /\ last.args[6] = "square" /\ last.args[7] = "timber" /\ last.args[3] > 0

C22_SizeFactorDecreasesWithoutJump ==
    last.op = "calculate_size_factor"
        => LET b_plus_h == last.width + last.height
               Smaller == {w \in SizeWidths :
                              /\ w + last.height > Fix(5)
                              /\ w + SCALE <= last.width}
           IN  /\ last.status = "ok"
               /\ b_plus_h <= Fix(5) => last.value = SCALE
               /\ b_plus_h > Fix(5) => last.value < SCALE
               /\ \A w \in Smaller :
                      SizeFactor(w, last.height, last.z_eff, last.zone)
                          > last.value
               /\ b_plus_h = Fix(300)
                      => SizeFactor(last.width - 1, last.height, last.z_eff,
                                    last.zone) - last.value < 10

\* the ranges that the caller of the engines validates (api.py)
C23_Validated(inputs) ==
    /\ 0 < inputs.sign_width /\ inputs.sign_width <= Fix(50)
    /\ 0 < inputs.sign_height /\ inputs.sign_height <= Fix(30)
    /\ 0 < inputs.sign_depth /\ inputs.sign_depth <= Fix(10)
    /\ Fix(2) <= inputs.building_height /\ inputs.building_height <= Fix(200)
    /\ 0 <= inputs.site_altitude /\ inputs.site_altitude <= Fix(2000)

\* C23: for every wall-mounted input within the validated ranges the result
\* has q_p > 0, force_N = q_p * c_s * c_d * c_f * A_ref >= 0 with
\* force_kN = force_N / 1000, and an overturning moment
\* moment_kNm = force_kN * (building_height - sign_height / 2) that is not
\* negative.
C23_ForceAndMomentNotNegative ==
    (engine = "wall" /\ last.op = "calculate_wind_loading"
       /\ C23_Validated(last.inputs))
        => /\ last.status = "ok"
           /\ last.result.q_p > 0
           /\ last.result.force_N
                  = MulWhole(Mul(Mul(Mul(last.result.q_p, last.result.c_s),
                                     last.result.c_d), last.result.c_f),
                             last.result.A_ref)
           /\ last.result.force_N >= 0
           /\ last.result.force_kN = last.result.force_N * 10
           /\ last.result.moment_kNm
                  = Mul(last.result.force_kN,
                        last.inputs.building_height
                            - last.inputs.sign_height \div 2)
           /\ last.result.moment_kNm >= 0

\* C24: for the Sheffield Bioincubator input the wall-mounted engine returns
\* v_map within 0.1 of 22.1, c_alt within 0.02 of 1.10, c_dir = 1.0,
\* c_e * c_e_T within 0.2 of 2.9, q_p within 5% of 1058 Pa, c_s within 0.05 of
\* 0.85, c_d within 0.05 of 1.03, c_f within 0.05 of 0.92 and force_kN within
\* 8% of 460.
C24_SheffieldGolden ==
    (engine = "wall" /\ last.op = "calculate_wind_loading"
       /\ last.inputs = Sheffield)
        => LET Within(x, golden, tol) == x - golden < tol /\ golden - x < tol
               r == last.result
           IN  /\ last.status = "ok"
               /\ Within(r.v_map, 221000, 1000)
               /\ Within(r.c_alt, 11000, 200)
               /\ r.c_dir = SCALE
               /\ Within(Mul(r.c_e, r.c_e_T), 29000, 2000)
               /\ Within(r.q_p, Fix(1058), Fix(1058) \div 20)
               /\ Within(r.c_s, 8500, 500)
               /\ Within(r.c_d, 10300, 500)
               /\ Within(r.c_f, 9200, 500)
               /\ Within(r.force_kN, Fix(460), (Fix(460) * 8) \div 100)

\* the Sheffield input evaluated on an instance that was used before: about
\* 1038 Pa and 492 kN
C24_Witness ==
    /\ engine = "wall" /\ last.op = "calculate_wind_loading"
    /\ last.status = "ok" /\ last.inputs = Sheffield /\ last.id = 2
    /\ last.result.q_p > Fix(1030) /\ last.result.q_p < Fix(1045)
    /\ last.result.force_kN > Fix(485) /\ last.result.force_kN < Fix(496)

\* C25: _calculate_num_channels returns ceil(height / spacing) + 1 and never
\* less than 2 for every positive height and spacing, so that
\* (channels - 1) * spacing >= height; in every calculate_panel_adequacy
\* result max_spacing_recommended <= channel_spacing and
\* num_channels_recommended >= num_channels_current.
C25_ChannelsCoverTheHeight ==
    /\ (last.op = "_calculate_num_channels" /\ last.sign_height > 0
          /\ last.spacing > 0)
        => /\ last.status = "ok"
           /\ last.value >= 2
           /\ (last.value - 1) * last.spacing >= last.sign_height
           /\ (last.value - 2) * last.spacing < last.sign_height
    /\ (last.op = "calculate_panel_adequacy" /\ last.status = "ok")
        => /\ last.result.max_spacing_recommended
                  <= last.inputs.channel_spacing
           /\ last.result.num_channels_recommended
                  >= last.result.num_channels_current

\* a panel that fails at 900 mm, where 2.0 m of height take 4 channels, is
\* given more channels at a closer spacing
C25_Witness ==
    /\ last.op = "calculate_panel_adequacy" /\ last.status = "ok"
    /\ last.inputs.channel_spacing = 900
    /\ last.result.overall_status = "INADEQUATE"
    /\ last.result.max_spacing_recommended < 900
    /\ last.result.num_channels_current = 4
    /\ last.result.num_channels_recommended > 4

\* C26: in the wall-mounted pipeline the zone chosen in Stage 7 decides the
\* town correction of Stage 8-9: the result has c_e_T > 1.0 only when its zone
\* is 'C'; a result with zone 'A' or 'B' always has c_e_T = 1.0.
C26_TownCorrectionOnlyInZoneC ==
    (engine = "wall" /\ last.op = "calculate_wind_loading"
       /\ last.status = "ok")
        => /\ last.result.c_e_T > SCALE => last.result.zone = "C"
           /\ last.result.zone \in {"A", "B"} => last.result.c_e_T = SCALE

\* C27: calculate_dynamic_factor returns exactly 1.0 for height <= 15; for
\* height > 15 it returns the linear interpolation of the table
\* {0.25: 1.02, 0.5: 1.03, 1: 1.06, 2: 1.10, 4: 1.17, 10: 1.24} at h/width,
\* clamped to 1.02 below 0.25 and to 1.24 above 10, so the value lies in
\* [1.02, 1.24], never decreases when h/width increases, and the fallback
\* return of 1.1 is never taken (the interpolation is met to within 0.0002,
\* the rounding of the fixed-point product and quotient).
C27_DynamicFactorInterpolates ==
    (last.op = "calculate_dynamic_factor"
       /\ (last.height <= Fix(15) \/ last.width > 0))
        => LET x == Div(last.height, last.width)
               t == DynamicTable
               Linear(j) == (last.value - t[j][2]) * (t[j + 1][1] - t[j][1])
                               - (t[j + 1][2] - t[j][2]) * (x - t[j][1])
           IN  /\ last.status = "ok"
               /\ last.height <= Fix(15) => last.value = SCALE
               /\ last.height > Fix(15) =>
                      /\ 10200 <= last.value /\ last.value <= 12400
                      /\ x <= 2500 => last.value = 10200
                      /\ x >= Fix(10) => last.value = 12400
                      /\ \A j \in 1..(Len(t) - 1) :
                            (t[j][1] <= x /\ x <= t[j + 1][1])
                                => /\ Linear(j) <= 0
                                   /\ Linear(j) > 0 - 2 * (t[j + 1][1] - t[j][1])
                      /\ \A w \in DynamicWidths :
                            w >= last.width
                                => DynamicFactor(last.height, w) <= last.value
                      /\ ~last.fallback

\* h/b = 6, between the keys 4 and 10: 1.17 + 0.07 * 2 / 6
C27_Witness ==
    /\ last.op = "calculate_dynamic_factor" /\ last.status = "ok"
    /\ last.height = Fix(30) /\ last.width = Fix(5)
    /\ last.value = 11933 /\ ~last.fallback

\* C28: a post-mounted result has overall_status ADEQUATE (overall_pass true)
\* only if every check that was run passed: post_check bending_status and
\* shear_status are both PASS and foundation_check status is ADEQUATE; a FAIL
\* of the post shear check, a MARGINAL or INADEQUATE embedment, or a
\* steel-base foundation always gives REQUIRES REVIEW.
C28_AdequateOnlyIfEveryCheckPassed ==
    (engine = "post" /\ last.op = "calculate_wind_loading"
       /\ last.status = "ok")
        => LET r == last.result
               bending_ok == r.post_check = NoCheck
                                \/ r.post_check.bending_status = "PASS"
               shear_ok == r.post_check = NoCheck
                              \/ r.post_check.shear_status = "PASS"
               foundation_ok == r.foundation_check = NoCheck
                                   \/ r.foundation_check.status = "ADEQUATE"
           IN  /\ r.overall_pass <=> r.overall_status = "ADEQUATE"
               /\ ~r.overall_pass <=> r.overall_status = "REQUIRES REVIEW"
               /\ r.overall_pass => (bending_ok /\ shear_ok /\ foundation_ok)

\* what C29 says assess_adequacy returns for a peak pressure (Pa), a force
\* (kN), a sign area (m2) and a building height (m)
C29_Worst(q_p, force_kN, sign_area, height) ==
    IF q_p > Fix(1500) \/ (sign_area > 0 /\ force_kN > 2 * sign_area)
    THEN "FAIL"
    ELSE IF /\ q_p <= Fix(1200)
            /\ ~(sign_area > 0 /\ 2 * force_kN > 3 * sign_area)
            /\ sign_area <= Fix(30)
            /\ height <= Fix(20)
    THEN "PASS"
    ELSE "CAUTION"

\* C29: in assess_adequacy the overall status is the worst outcome of the
\* four checks and a later check never lowers it: overall_status is FAIL
\* exactly when q_p > 1500 Pa or force per area > 2.0 kN/m2; it is PASS
\* exactly when q_p <= 1200, force per area <= 1.5, sign area <= 30 m2 and
\* building height <= 20 m; in every other case it is CAUTION.
C29_AssessmentIsTheWorstCheck ==
    /\ last.op = "assess_adequacy"
        => last.overall_status
              = C29_Worst(last.q_p, last.force_kN, last.sign_area,
                          last.building_height)
    /\ (engine = "wall" /\ last.op = "calculate_wind_loading"
          /\ last.status = "ok")
        => last.result.assessment
              = C29_Worst(last.result.q_p, last.result.force_kN,
                          last.result.A_ref, last.inputs.building_height)

\* a pressure over 1500 Pa on a sign over 30 m2 above 20 m stays FAIL
C29_Witness ==
    /\ last.op = "assess_adequacy" /\ last.status = "ok"
    /\ last.q_p = Fix(1600) /\ last.sign_area = Fix(40)
    /\ last.building_height = Fix(25)
    /\ last.overall_status = "FAIL"

\* the exposure factor of a terrain at the height and distance of the last
\* direct call of calculate_exposure_factor
C30_Exposure(terrain_type) ==
    IF terrain_type = last.terrain_type THEN last.value
    ELSE ExposureFactor(last.height, 0, last.distance_to_shore, terrain_type)

\* a direct call of calculate_exposure_factor for sea, country or town at
\* 100 km or more from the shore
C30_InlandCall ==
    /\ last.op = "calculate_exposure_factor" /\ last.status = "ok"
    /\ last.distance_to_shore >= Fix(100)
    /\ last.terrain_type \in {"sea", "country", "town"}

\* C30 as stated: exposure follows the terrain order sea, country, town: for
\* the same height and a distance to shore of 100 km or more,
\* calculate_exposure_factor returns c_e(town) <= c_e(country) <= c_e(sea).
C30_TownBelowCountryBelowSea ==
    C30_InlandCall
        => /\ C30_Exposure("town") <= C30_Exposure("country")
           /\ C30_Exposure("country") <= C30_Exposure("sea")

\* C30 (amended): for the same height and a distance to shore of 100 km or
\* more, calculate_exposure_factor returns
\* c_e(country) <= c_e(sea) <= c_e(town): country is below sea, and town,
\* whose base values are set higher because the town correction is applied
\* separately, is not below either of them.
C30_CountryBelowSeaBelowTown ==
    C30_InlandCall
        => /\ C30_Exposure("country") <= C30_Exposure("sea")
           /\ C30_Exposure("sea") <= C30_Exposure("town")

\* town at 27 m, 100 km from the shore: 2.778, above sea (2.699) and
\* country (2.319)
C30_Witness ==
    /\ C30_InlandCall
    /\ last.terrain_type = "town" /\ last.height = Fix(27)
    /\ last.value > C30_Exposure("sea")
    /\ C30_Exposure("sea") > C30_Exposure("country")

====
